---- MODULE Spec2Model ----
(***************************************************************************)
(* Fork-aware snapshot manager of the rollup state store                   *)
(* (module-system/sov-fork-manager/src/lib.rs).                            *)
(*                                                                         *)
(* The manager owns four maps and an id counter.  get_new_ref registers a  *)
(* pending block, add_snapshot attaches the write-set produced by          *)
(* executing it, finalize_snapshot commits one snapshot to the persistent  *)
(* store and discards the sibling subtrees, and the query_* functions      *)
(* resolve a read by walking from a snapshot up its chain of parents.      *)
(*                                                                         *)
(* The hint witness of the state store (module-system/sov-state/src/       *)
(* witness.rs) is the second part: add_hint records a serialized hint,     *)
(* get_hint replays the next one, merge moves the unread hints of one      *)
(* witness to another.  It has a specification of its own, WitnessSpec.    *)
(*                                                                         *)
(* A Rust panic (assert!, unwrap, expect) stops the program: the state it  *)
(* leaves behind (whatever the call had changed before it panicked) is     *)
(* kept in the model as a final state with outcome = "panic".              *)
(***************************************************************************)
EXTENDS Integers, Sequences, FiniteSets, TLC

\* ------------------------------------------------------------------ bounds
\* Block hashes that headers may carry as their own hash: 1..MaxHash.
MaxHash == 3
\* get_new_ref is called at most MaxId times (bounds latest_snapshot_id).
MaxId == 3

\* add_hint is called at most MaxHints times, over all witnesses.
MaxHints == 3
\* Each thread makes at most MaxCalls calls on the witnesses.
MaxCalls == 2
\* A run makes at most MaxOps module calls.
MaxOps == 3
\* begin_slot is called at most MaxSlots times.
MaxSlots == 2
\* The validator makes at most MaxNotifications notifications of accounts,
\* transactions, blocks and slot statuses.
MaxNotifications == 5

\* Hash 0 stands for a block that was finalized before the manager started
\* (the root of the pending forest); it occurs as a parent hash only.
Hashes == 1..MaxHash
ParentHashes == 0..MaxHash
Ids == 1..MaxId
\* Storage keys.  Lookups of different keys never interact, one key is enough.
Keys == {"k"}

\* ------------------------------------------------------------ map helpers
\* HashMap<K, V> as a function whose DOMAIN is the set of keys present.
EmptyMap == [x \in {} |-> 0]
MapInsert(m, k, v) == [x \in (DOMAIN m) \cup {k} |-> IF x = k THEN v ELSE m[x]]
MapRemove(m, k) == [x \in (DOMAIN m) \ {k} |-> m[x]]
MapRange(m) == {m[x] : x \in DOMAIN m}
SeqRange(s) == {s[i] : i \in 1..Len(s)}
\* Vec::into_iter().filter(|x| x != h).collect()
RECURSIVE FilterNe(_, _)
FilterNe(s, h) ==
    IF s = <<>> THEN <<>>
    ELSE IF Head(s) = h THEN FilterNe(Tail(s), h)
         ELSE <<Head(s)>> \o FilterNe(Tail(s), h)

\* -------------------------------------------------------------- variables
VARIABLES
    snapshots,                  \* SlotHash -> Snapshot
    chain_forks,                \* SlotHash (parent) -> Vec<SlotHash> (children)
    blocks_to_parent,           \* SlotHash (child) -> SlotHash (parent)
    latest_snapshot_id,         \* SnapshotId
    snapshot_id_to_block_hash,  \* SnapshotId -> SlotHash
    store,                      \* the persistent store: db + native_db
    next_idx,                   \* witness -> its cursor (AtomicUsize)
    hints,                      \* witness -> its hints (Vec<Vec<u8>>)
    outcome,                    \* "ok", or "panic" once a call has panicked
    last,                       \* the last call made and what it returned
    issued,                     \* history: the (id, hash) pairs get_new_ref returned
    life,                       \* history: the life-cycle state of each hash
    recorded,                   \* history: witness -> the hints add_hint was given
    replayed,                   \* history: witness -> the hints get_hint returned
    merged,                     \* history: witness -> it has taken part in a merge
    threads,                    \* thread -> the call it is in and where in it
    lock,                       \* witness -> who holds the Mutex of its hints
    reads,                      \* history: the get_hint calls that got their index
    db,                         \* what the native storage holds: key -> bytes
    phase,                      \* "native": recording, "zk": replaying
    working_set,                \* the working set of the run in progress
    script,                     \* the module calls of the native run, with results
    native_final,               \* the working set the native run ended with
    zk_results,                 \* the results of the calls replayed so far
    checkpoint,                 \* AppTemplate::checkpoint: Option<StateCheckpoint>
    current_storage,            \* AppTemplate::current_storage: what was committed
    slots,                      \* history: the number of begin_slot calls
    inner,                      \* Plugin::inner: Option<PluginInner>
    geyser_channel,             \* the channel: its queue, and whether the sender lives
    worker,                     \* the worker thread: its accumulators, once spawned
    notifications               \* history: the number of notifications made

vars == <<snapshots, chain_forks, blocks_to_parent, latest_snapshot_id,
          snapshot_id_to_block_hash, store, outcome, last, issued, life,
          next_idx, hints, recorded, replayed, merged,
          threads, lock, reads,
          db, phase, working_set, script, native_final, zk_results,
          checkpoint, current_storage, slots,
          inner, geyser_channel, worker, notifications>>

\* The variables of the fork manager and those of the witnesses.
manager_vars == <<snapshots, chain_forks, blocks_to_parent, latest_snapshot_id,
                  snapshot_id_to_block_hash, store, issued, life>>
witness_vars == <<next_idx, hints, recorded, replayed, merged>>
\* The variables of the threads that share the witnesses.
thread_vars == <<threads, lock, reads>>
\* The variables of the module runs.
module_vars == <<db, phase, working_set, script, native_final, zk_results>>
\* The variables of the state-transition template.
template_vars == <<checkpoint, current_storage, slots>>
\* The variables of the geyser plugin and its worker.
geyser_vars == <<inner, geyser_channel, worker, notifications>>

\* The manager's fields as one record, the `self` of the methods below.
Mgr == [snapshots |-> snapshots,
        chain_forks |-> chain_forks,
        blocks_to_parent |-> blocks_to_parent,
        latest_snapshot_id |-> latest_snapshot_id,
        snapshot_id_to_block_hash |-> snapshot_id_to_block_hash]

\* ForkManager::new: every map empty, the id counter at its default 0.
NewManager == [snapshots |-> EmptyMap,
               chain_forks |-> EmptyMap,
               blocks_to_parent |-> EmptyMap,
               latest_snapshot_id |-> 0,
               snapshot_id_to_block_hash |-> EmptyMap]

\* is_empty looking at the snapshots only.
is_empty_SnapshotsOnly(m) == DOMAIN m.snapshots = {}

\* ForkManager::is_empty: all four maps are empty.
is_empty(m) ==
    /\ DOMAIN m.chain_forks = {}
    /\ DOMAIN m.blocks_to_parent = {}
    /\ DOMAIN m.snapshots = {}
    /\ DOMAIN m.snapshot_id_to_block_hash = {}

\* The persistent store: the calls made on db and native_db, in order, and
\* the version counter of db.
NewStore == [log |-> <<>>, version |-> 0]

\* --------------------------------------------------------------- snapshot
\* A snapshot in the shape of the test module's MockSnapshot: its id and the
\* two caches.  A snapshot writes its own id as the value, so that the
\* values of two different snapshots can always be told apart.
MockSnapshot(id, ks, aks) ==
    [id |-> id,
     cache |-> [k \in ks |-> id],
     accessory_cache |-> [k \in aks |-> id]]

\* The snapshots handed to add_snapshot: any id, and each key written either
\* to the state cache or to the accessory cache (so for either cache there
\* are snapshots that hold the key and snapshots that do not).
SnapshotInputs == {MockSnapshot(id, ks, Keys \ ks) : id \in Ids, ks \in SUBSET Keys}

None == [some |-> FALSE]
Some(v) == [some |-> TRUE, value |-> v]

\* Snapshot::get_storage_value / get_accessory_value / get_id
get_storage_value(s, key) == IF key \in DOMAIN s.cache THEN Some(s.cache[key]) ELSE None
get_accessory_value(s, key) ==
    IF key \in DOMAIN s.accessory_cache THEN Some(s.accessory_cache[key]) ELSE None
get_id(s) == s.id

\* S: Into<(NodeBatch, OrderedReadsAndWrites)>: the durable write-batch of a
\* snapshot, its tree writes and its accessory writes.
SnapshotInto(s) == [node_batch |-> s.cache, accessory_writes |-> s.accessory_cache]

\* ------------------------------------------------------------------ query
\* What a query returns: an Option, or Diverges when the loop never ends.
Diverges == [some |-> FALSE, diverges |-> TRUE]

\* ForkManager::parent_iterator: the iterator starts at the block hash
\* recorded for the id (None when the id is unknown).
parent_iterator(m, snapshot_id) ==
    IF snapshot_id \in DOMAIN m.snapshot_id_to_block_hash
    THEN Some(m.snapshot_id_to_block_hash[snapshot_id])
    ELSE None

\* SnapshotParentIterator::next: None when there is no current hash or the
\* current hash has no snapshot; otherwise yields that snapshot and moves
\* to the recorded parent.
IteratorNext(m, current_block_hash) ==
    IF ~current_block_hash.some THEN [item |-> None, current |-> current_block_hash]
    ELSE IF current_block_hash.value \notin DOMAIN m.snapshots
         THEN [item |-> None, current |-> current_block_hash]
    ELSE [item |-> Some(m.snapshots[current_block_hash.value]),
          current |-> IF current_block_hash.value \in DOMAIN m.blocks_to_parent
                      THEN Some(m.blocks_to_parent[current_block_hash.value])
                      ELSE None]

\* The value a snapshot holds for the key in the cache the query reads.
SnapshotGet(s, key, accessory) ==
    IF accessory THEN get_accessory_value(s, key) ELSE get_storage_value(s, key)

\* The `for snapshot in self.parent_iterator(id)` loop of the query
\* functions.  The iterator yields one snapshot per step; a walk that has
\* yielded more snapshots than there are goes round a cycle of
\* blocks_to_parent and never ends (fuel counts the steps left).
RECURSIVE QueryLoop(_, _, _, _, _)
QueryLoop(m, current_block_hash, key, accessory, fuel) ==
    LET n == IteratorNext(m, current_block_hash) IN
    IF ~n.item.some THEN None
    ELSE LET value == SnapshotGet(n.item.value, key, accessory) IN
         IF value.some THEN value
         ELSE IF fuel = 0 THEN Diverges
         ELSE QueryLoop(m, n.current, key, accessory, fuel - 1)

\* query_storage_value stopping at the first snapshot: the loop returns the
\* value of the queried block's own snapshot, found or not.
query_storage_value_OwnOnly(m, snapshot_id, key) ==
    LET n == IteratorNext(m, parent_iterator(m, snapshot_id)) IN
    IF n.item.some THEN get_storage_value(n.item.value, key) ELSE None

\* ForkManager::query_storage_value
query_storage_value(m, snapshot_id, key) ==
    QueryLoop(m, parent_iterator(m, snapshot_id), key, FALSE,
              Cardinality(DOMAIN m.snapshots))

\* ForkManager::query_accessory_value
query_accessory_value(m, snapshot_id, key) ==
    QueryLoop(m, parent_iterator(m, snapshot_id), key, TRUE,
              Cardinality(DOMAIN m.snapshots))

\* ------------------------------------------------------------ get_new_ref
\* get_new_ref asserting only that a second header carries the parent of
\* the first: the same header twice is let through.
get_new_ref_SameParentAllowed(m, current_block_hash, prev_block_hash) ==
    LET id == m.latest_snapshot_id + 1
        c == IF current_block_hash \in DOMAIN m.blocks_to_parent
             THEN Some(m.blocks_to_parent[current_block_hash]) ELSE None
        m1 == [m EXCEPT
                 !.latest_snapshot_id = id,
                 !.snapshot_id_to_block_hash =
                     MapInsert(m.snapshot_id_to_block_hash, id, current_block_hash),
                 !.blocks_to_parent =
                     MapInsert(m.blocks_to_parent, current_block_hash, prev_block_hash)]
        children == IF prev_block_hash \in DOMAIN m1.chain_forks
                    THEN m1.chain_forks[prev_block_hash] ELSE <<>>
    IN IF c.some /\ c.value # prev_block_hash
       THEN [m |-> m1, panic |-> TRUE, ret |-> 0]
       ELSE [m |-> [m1 EXCEPT !.chain_forks =
                        MapInsert(m1.chain_forks, prev_block_hash,
                                  Append(children, current_block_hash))],
             panic |-> FALSE, ret |-> id]

\* get_new_ref taking the new id from the size of the id map instead of
\* the counter.
get_new_ref_IdFromMapSize(m, current_block_hash, prev_block_hash) ==
    LET id == Cardinality(DOMAIN m.snapshot_id_to_block_hash) + 1
        c == IF current_block_hash \in DOMAIN m.blocks_to_parent
             THEN Some(m.blocks_to_parent[current_block_hash]) ELSE None
        m1 == [m EXCEPT
                 !.latest_snapshot_id = m.latest_snapshot_id + 1,
                 !.snapshot_id_to_block_hash =
                     MapInsert(m.snapshot_id_to_block_hash, id, current_block_hash),
                 !.blocks_to_parent =
                     MapInsert(m.blocks_to_parent, current_block_hash, prev_block_hash)]
        children == IF prev_block_hash \in DOMAIN m1.chain_forks
                    THEN m1.chain_forks[prev_block_hash] ELSE <<>>
    IN IF c.some
       THEN [m |-> m1, panic |-> TRUE, ret |-> 0]
       ELSE [m |-> [m1 EXCEPT !.chain_forks =
                        MapInsert(m1.chain_forks, prev_block_hash,
                                  Append(children, current_block_hash))],
             panic |-> FALSE, ret |-> id]

\* get_new_ref putting the new block at the front of its parent's child
\* list.
get_new_ref_ChildFirst(m, current_block_hash, prev_block_hash) ==
    LET id == m.latest_snapshot_id + 1
        c == IF current_block_hash \in DOMAIN m.blocks_to_parent
             THEN Some(m.blocks_to_parent[current_block_hash]) ELSE None
        m1 == [m EXCEPT
                 !.latest_snapshot_id = id,
                 !.snapshot_id_to_block_hash =
                     MapInsert(m.snapshot_id_to_block_hash, id, current_block_hash),
                 !.blocks_to_parent =
                     MapInsert(m.blocks_to_parent, current_block_hash, prev_block_hash)]
        children == IF prev_block_hash \in DOMAIN m1.chain_forks
                    THEN m1.chain_forks[prev_block_hash] ELSE <<>>
    IN IF c.some
       THEN [m |-> m1, panic |-> TRUE, ret |-> 0]
       ELSE [m |-> [m1 EXCEPT !.chain_forks =
                        MapInsert(m1.chain_forks, prev_block_hash,
                                  <<current_block_hash>> \o children)],
             panic |-> FALSE, ret |-> id]

\* ForkManager::get_new_ref.  The counter, the id map and blocks_to_parent
\* are written before the assert; the child list only after it.
get_new_ref(m, current_block_hash, prev_block_hash) ==
    LET id == m.latest_snapshot_id + 1
        c == IF current_block_hash \in DOMAIN m.blocks_to_parent
             THEN Some(m.blocks_to_parent[current_block_hash]) ELSE None
        m1 == [m EXCEPT
                 !.latest_snapshot_id = id,
                 !.snapshot_id_to_block_hash =
                     MapInsert(m.snapshot_id_to_block_hash, id, current_block_hash),
                 !.blocks_to_parent =
                     MapInsert(m.blocks_to_parent, current_block_hash, prev_block_hash)]
        children == IF prev_block_hash \in DOMAIN m1.chain_forks
                    THEN m1.chain_forks[prev_block_hash] ELSE <<>>
    IN IF c.some
       THEN [m |-> m1, panic |-> TRUE, ret |-> 0]
       ELSE [m |-> [m1 EXCEPT !.chain_forks =
                        MapInsert(m1.chain_forks, prev_block_hash,
                                  Append(children, current_block_hash))],
             panic |-> FALSE, ret |-> id]

\* ----------------------------------------------------------- add_snapshot
\* add_snapshot storing the snapshot under the hash of the latest recorded
\* id instead of the hash of the snapshot's own id.
add_snapshot_UnderLatestHash(m, snapshot) ==
    IF get_id(snapshot) \notin DOMAIN m.snapshot_id_to_block_hash
    THEN [m |-> m, panic |-> TRUE]
    ELSE LET latest == CHOOSE i \in DOMAIN m.snapshot_id_to_block_hash :
                         \A j \in DOMAIN m.snapshot_id_to_block_hash : j <= i
         IN [m |-> [m EXCEPT !.snapshots =
                       MapInsert(m.snapshots, m.snapshot_id_to_block_hash[latest],
                                 snapshot)],
             panic |-> FALSE]

\* ForkManager::add_snapshot: unwrap panics on an id with no recorded hash.
add_snapshot(m, snapshot) ==
    IF get_id(snapshot) \notin DOMAIN m.snapshot_id_to_block_hash
    THEN [m |-> m, panic |-> TRUE]
    ELSE [m |-> [m EXCEPT !.snapshots =
                     MapInsert(m.snapshots,
                               m.snapshot_id_to_block_hash[get_id(snapshot)],
                               snapshot)],
          panic |-> FALSE]

\* ------------------------------------------------------ finalize_snapshot
\* remove_snapshot reading the snapshot with get instead of remove: the
\* snapshot stays in the map.
remove_snapshot_KeepsSnapshot(m, block_hash) ==
    IF block_hash \notin DOMAIN m.snapshots
    THEN [m |-> m, panic |-> TRUE, snapshot |-> None]
    ELSE LET snapshot == m.snapshots[block_hash] IN
         IF get_id(snapshot) \notin DOMAIN m.snapshot_id_to_block_hash
         THEN [m |-> m, panic |-> TRUE, snapshot |-> None]
         ELSE [m |-> [m EXCEPT !.snapshot_id_to_block_hash =
                         MapRemove(m.snapshot_id_to_block_hash, get_id(snapshot))],
               panic |-> m.snapshot_id_to_block_hash[get_id(snapshot)] # block_hash,
               snapshot |-> Some(snapshot)]

\* ForkManager::remove_snapshot: expect panics when the hash has no
\* snapshot; unwrap panics when the snapshot's id has no recorded hash (the
\* snapshot is out of the map by then).  debug_assert_eq panics when the
\* recorded hash is not block_hash; a release build leaves the check out,
\* and DebugAssertHolds below shows that the two builds never differ.
remove_snapshot(m, block_hash) ==
    IF block_hash \notin DOMAIN m.snapshots
    THEN [m |-> m, panic |-> TRUE, snapshot |-> None]
    ELSE LET snapshot == m.snapshots[block_hash]
             m1 == [m EXCEPT !.snapshots = MapRemove(m.snapshots, block_hash)]
         IN IF get_id(snapshot) \notin DOMAIN m1.snapshot_id_to_block_hash
            THEN [m |-> m1, panic |-> TRUE, snapshot |-> None]
            ELSE LET removed_block_hash == m1.snapshot_id_to_block_hash[get_id(snapshot)]
                     m2 == [m1 EXCEPT !.snapshot_id_to_block_hash =
                               MapRemove(m1.snapshot_id_to_block_hash, get_id(snapshot))]
                 IN [m |-> m2,
                     panic |-> removed_block_hash # block_hash,
                     snapshot |-> Some(snapshot)]

\* The calls the store receives.
WriteNodeBatch(snapshot) ==
    [call |-> "write_node_batch", id |-> get_id(snapshot),
     batch |-> SnapshotInto(snapshot).node_batch]
SetValues(snapshot) ==
    [call |-> "set_values", id |-> get_id(snapshot),
     batch |-> SnapshotInto(snapshot).accessory_writes]
IncNextVersion == [call |-> "inc_next_version"]

\* What the store does to a commit: both writes succeed, or one of them
\* returns an error.
StoreFaults == {"none", "write_node_batch", "set_values"}

\* commit_snapshot writing the accessory values before the node batch.
commit_snapshot_AccessoryFirst(st, snapshot, fault) ==
    IF fault = "set_values" THEN [store |-> st, panic |-> TRUE]
    ELSE LET st1 == [st EXCEPT !.log = Append(st.log, SetValues(snapshot))] IN
         IF fault = "write_node_batch" THEN [store |-> st1, panic |-> TRUE]
         ELSE LET st2 == [st1 EXCEPT !.log = Append(st1.log, WriteNodeBatch(snapshot))] IN
              [store |-> [st2 EXCEPT !.log = Append(st2.log, IncNextVersion),
                                     !.version = st2.version + 1],
               panic |-> FALSE]

\* ForkManager::commit_snapshot: write_node_batch, then set_values, then
\* inc_next_version; expect panics on the first write that fails.
commit_snapshot(st, snapshot, fault) ==
    IF fault = "write_node_batch" THEN [store |-> st, panic |-> TRUE]
    ELSE LET st1 == [st EXCEPT !.log = Append(st.log, WriteNodeBatch(snapshot))] IN
         IF fault = "set_values" THEN [store |-> st1, panic |-> TRUE]
         ELSE LET st2 == [st1 EXCEPT !.log = Append(st1.log, SetValues(snapshot))] IN
              [store |-> [st2 EXCEPT !.log = Append(st2.log, IncNextVersion),
                                     !.version = st2.version + 1],
               panic |-> FALSE]

\* The `while let Some(next_to_discard) = to_discard.pop()` loop of
\* finalize_snapshot.  Each turn pops the last hash, removes its child list
\* (pushing the children), then its parent edge (unwrap), then its snapshot
\* (remove_snapshot).  discarded lists the hashes whose turn has completed.
RECURSIVE DiscardLoop(_, _, _)
DiscardLoop(m, to_discard, discarded) ==
    IF to_discard = <<>> THEN [m |-> m, panic |-> FALSE, discarded |-> discarded]
    ELSE
      LET next_to_discard == to_discard[Len(to_discard)]
          rest == SubSeq(to_discard, 1, Len(to_discard) - 1)
          next_children_to_discard ==
              IF next_to_discard \in DOMAIN m.chain_forks
              THEN m.chain_forks[next_to_discard] ELSE <<>>
          m1 == [m EXCEPT !.chain_forks = MapRemove(m.chain_forks, next_to_discard)]
      IN IF next_to_discard \notin DOMAIN m1.blocks_to_parent
         THEN [m |-> m1, panic |-> TRUE, discarded |-> discarded]
         ELSE
           LET m2 == [m1 EXCEPT !.blocks_to_parent =
                         MapRemove(m1.blocks_to_parent, next_to_discard)]
               r == remove_snapshot(m2, next_to_discard)
           IN IF r.panic
              THEN [m |-> r.m, panic |-> TRUE, discarded |-> discarded]
              ELSE DiscardLoop(r.m, rest \o next_children_to_discard,
                               Append(discarded, next_to_discard))

\* The pruning of finalize_snapshot looking the parent up with get instead
\* of remove: the parent edge of the finalized block stays.
PruneSiblings_KeepsEdge(m, block_hash) ==
    IF block_hash \notin DOMAIN m.blocks_to_parent
    THEN [m |-> m, panic |-> FALSE, discarded |-> <<>>]
    ELSE LET parent_block_hash == m.blocks_to_parent[block_hash] IN
         IF parent_block_hash \notin DOMAIN m.chain_forks
         THEN [m |-> m, panic |-> TRUE, discarded |-> <<>>]
         ELSE DiscardLoop(
                [m EXCEPT !.chain_forks = MapRemove(m.chain_forks, parent_block_hash)],
                FilterNe(m.chain_forks[parent_block_hash], block_hash),
                <<>>)

\* The pruning part of finalize_snapshot (after the commit): removes the
\* parent edge of block_hash; when there was one, removes the parent's child
\* list (expect) and discards every other child with its descendants.
PruneSiblings(m, block_hash) ==
    IF block_hash \notin DOMAIN m.blocks_to_parent
    THEN [m |-> m, panic |-> FALSE, discarded |-> <<>>]
    ELSE LET parent_block_hash == m.blocks_to_parent[block_hash]
             m1 == [m EXCEPT !.blocks_to_parent = MapRemove(m.blocks_to_parent, block_hash)]
         IN IF parent_block_hash \notin DOMAIN m1.chain_forks
            THEN [m |-> m1, panic |-> TRUE, discarded |-> <<>>]
            ELSE DiscardLoop(
                   [m1 EXCEPT !.chain_forks = MapRemove(m1.chain_forks, parent_block_hash)],
                   FilterNe(m1.chain_forks[parent_block_hash], block_hash),
                   <<>>)

\* finalize_snapshot returning without a word when the hash has no snapshot.
finalize_snapshot_IgnoresMissing(m, st, block_hash, fault) ==
    LET r == remove_snapshot(m, block_hash) IN
    IF block_hash \notin DOMAIN m.snapshots
    THEN [m |-> m, store |-> st, panic |-> FALSE, committed |-> FALSE, discarded |-> <<>>]
    ELSE IF r.panic
    THEN [m |-> r.m, store |-> st, panic |-> TRUE, committed |-> FALSE, discarded |-> <<>>]
    ELSE LET c == commit_snapshot(st, r.snapshot.value, fault) IN
         IF c.panic
         THEN [m |-> r.m, store |-> c.store, panic |-> TRUE,
               committed |-> FALSE, discarded |-> <<>>]
         ELSE LET p == PruneSiblings(r.m, block_hash) IN
              [m |-> p.m, store |-> c.store, panic |-> p.panic,
               committed |-> TRUE, discarded |-> p.discarded]

\* finalize_snapshot pruning the forest before it takes the snapshot out.
finalize_snapshot_PruneFirst(m, st, block_hash, fault) ==
    LET p == PruneSiblings(m, block_hash)
        r == remove_snapshot(p.m, block_hash)
    IN IF p.panic \/ r.panic
       THEN [m |-> r.m, store |-> st, panic |-> TRUE, committed |-> FALSE,
             discarded |-> p.discarded]
       ELSE LET c == commit_snapshot(st, r.snapshot.value, fault) IN
            [m |-> r.m, store |-> c.store, panic |-> c.panic,
             committed |-> ~c.panic, discarded |-> p.discarded]

\* ForkManager::finalize_snapshot.  committed says whether the commit of the
\* addressed snapshot completed.
finalize_snapshot(m, st, block_hash, fault) ==
    LET r == remove_snapshot(m, block_hash) IN
    IF r.panic
    THEN [m |-> r.m, store |-> st, panic |-> TRUE, committed |-> FALSE, discarded |-> <<>>]
    ELSE LET c == commit_snapshot(st, r.snapshot.value, fault) IN
         IF c.panic
         THEN [m |-> r.m, store |-> c.store, panic |-> TRUE,
               committed |-> FALSE, discarded |-> <<>>]
         ELSE LET p == PruneSiblings(r.m, block_hash) IN
              [m |-> p.m, store |-> c.store, panic |-> p.panic,
               committed |-> TRUE, discarded |-> p.discarded]

\* ---------------------------------------------------------------- witness
\* The witnesses of a run: the one of an earlier execution phase and the one
\* of a later phase.
Witnesses == {"a", "b"}

\* The types hints are recorded and read with, and values of each.
HintTypes == {"u8", "u16"}
HintValues(ty) == IF ty = "u8" THEN {1, 2} ELSE {2, 258}

\* BorshSerialize::try_to_vec: a u8 is its byte, a u16 its two bytes, low
\* byte first.
\* A u32 is its four bytes, low byte first; a Vec<u8> its length as a u32
\* and then its bytes; an Option the byte 0 for None, the byte 1 and then
\* the value for Some (here an Option<StorageValue>, whose value is a
\* Vec<u8>).
RECURSIVE try_to_vec(_, _)
try_to_vec(ty, v) ==
    IF ty = "u8" THEN <<v % 256>>
    ELSE IF ty = "u16" THEN <<v % 256, (v \div 256) % 256>>
    ELSE IF ty = "u32"
    THEN <<v % 256, (v \div 256) % 256, (v \div 65536) % 256, (v \div 16777216) % 256>>
    ELSE IF ty = "vec" THEN try_to_vec("u32", Len(v)) \o v
    ELSE IF v.some THEN <<1>> \o try_to_vec("vec", v.value) ELSE <<0>>

\* BorshDeserialize::deserialize_reader on a cursor over the bytes: reads
\* the bytes the type takes from the front, an error when there are fewer.
\* An Option whose first byte is neither 0 nor 1 is an error too.
RECURSIVE deserialize_reader(_, _)
deserialize_reader(ty, bytes) ==
    IF ty = "u8"
    THEN IF Len(bytes) < 1 THEN None ELSE Some(bytes[1])
    ELSE IF ty = "u16"
    THEN IF Len(bytes) < 2 THEN None ELSE Some(bytes[1] + 256 * bytes[2])
    ELSE IF ty = "u32"
    THEN IF Len(bytes) < 4 THEN None
         ELSE Some(bytes[1] + 256 * bytes[2] + 65536 * bytes[3] + 16777216 * bytes[4])
    ELSE IF ty = "vec"
    THEN LET n == deserialize_reader("u32", bytes) IN
         IF ~n.some THEN None
         ELSE IF Len(bytes) < 4 + n.value THEN None
         ELSE Some(SubSeq(bytes, 5, 4 + n.value))
    ELSE IF Len(bytes) < 1 THEN None
    ELSE IF bytes[1] = 0 THEN Some(None)
    ELSE IF bytes[1] = 1
    THEN LET x == deserialize_reader("vec", Tail(bytes)) IN
         IF x.some THEN Some(Some(x.value)) ELSE None
    ELSE None

\* ArrayWitness::default
ArrayWitnessDefault == [next_idx |-> 0, hints |-> <<>>]

\* The fields of witness w as one record, the `self` of the methods below.
Wit(w) == [next_idx |-> next_idx[w], hints |-> hints[w]]

\* ArrayWitness::add_hint: pushes the serialized hint.
add_hint(self, ty, hint) ==
    [self EXCEPT !.hints = Append(self.hints, try_to_vec(ty, hint))]

\* get_hint reading the cursor with load instead of fetch_add: the cursor
\* never moves.
get_hint_NoAdvance(self, ty) ==
    LET idx == self.next_idx IN
    IF idx >= Len(self.hints)
    THEN [w |-> self, panic |-> TRUE, ret |-> None]
    ELSE LET d == deserialize_reader(ty, self.hints[idx + 1]) IN
         [w |-> self, panic |-> ~d.some, ret |-> d]

\* ArrayWitness::get_hint: fetch_add moves the cursor first; indexing the
\* hints past the end panics, and so does expect on a failed decode.
\* (idx counts from 0, sequences here from 1.)
get_hint(self, ty) ==
    LET idx == self.next_idx
        w1 == [self EXCEPT !.next_idx = idx + 1]
    IN IF idx >= Len(w1.hints)
       THEN [w |-> w1, panic |-> TRUE, ret |-> None]
       ELSE LET d == deserialize_reader(ty, w1.hints[idx + 1]) IN
            [w |-> w1, panic |-> ~d.some, ret |-> d]

\* merge draining rhs from the start: the hints rhs has read move as well.
merge_FromStart(self, rhs) ==
    [self |-> [self EXCEPT !.hints = self.hints \o rhs.hints],
     rhs |-> [rhs EXCEPT !.hints = <<>>],
     panic |-> FALSE]

\* merge copying the unread hints of rhs instead of draining them.
merge_KeepsRhs(self, rhs) ==
    LET rhs_next_idx == rhs.next_idx IN
    IF rhs_next_idx > Len(rhs.hints)
    THEN [self |-> self, rhs |-> rhs, panic |-> TRUE]
    ELSE [self |-> [self EXCEPT !.hints =
                      self.hints \o SubSeq(rhs.hints, rhs_next_idx + 1, Len(rhs.hints))],
          rhs |-> rhs,
          panic |-> FALSE]

\* ArrayWitness::merge with two different witnesses: drains the hints of
\* rhs from its cursor on and appends them to self; drain panics on a range
\* that starts past the end.
merge(self, rhs) ==
    LET rhs_next_idx == rhs.next_idx IN
    IF rhs_next_idx > Len(rhs.hints)
    THEN [self |-> self, rhs |-> rhs, panic |-> TRUE]
    ELSE [self |-> [self EXCEPT !.hints =
                      self.hints \o SubSeq(rhs.hints, rhs_next_idx + 1, Len(rhs.hints))],
          rhs |-> [rhs EXCEPT !.hints = SubSeq(rhs.hints, 1, rhs_next_idx)],
          panic |-> FALSE]

\* merge of a witness with itself locks the same Mutex twice on one thread:
\* the second lock does not return, it panics or blocks for ever.
SelfMergeOutcomes == {"panic", "deadlock"}

\* ---------------------------------------------------------------- threads
\* The witness is shared by reference between threads (its methods take
\* &self).  A call is a sequence of steps, one per access to shared memory:
\* get_hint is the fetch_add on next_idx and then the locked read of hints,
\* merge is the load of rhs.next_idx, the lock of self.hints and then the
\* lock of rhs.hints with the drain under both locks.  A MutexGuard is
\* dropped when its function returns or unwinds; a Mutex whose guard is
\* dropped by a panic is poisoned, and lock().unwrap() on it panics.
Threads == {"t1", "t2"}

\* A thread between two calls, having made n calls.
ThreadIdle(n) ==
    [pc |-> "idle", calls |-> n, w |-> "a", ty |-> "u8", idx |-> 0, rhs |-> "a"]

\* let idx = self.next_idx.fetch_add(1, SeqCst): the index the call gets and
\* the cursor it leaves.
fetch_add(self, ty) ==
    [idx |-> self.next_idx, next_idx |-> get_hint(self, ty).w.next_idx]

\* The rest of get_hint, under the lock: hints_lock[idx] decoded, a panic
\* when idx is past the end or the bytes do not decode.
read_locked(hints_lock, idx, ty) ==
    get_hint([next_idx |-> idx, hints |-> hints_lock], ty)

\* The rest of merge, under both locks, with the cursor of rhs as it was
\* loaded at the start of the call.
drain_locked(self, rhs, rhs_next_idx) ==
    merge(self, [rhs EXCEPT !.next_idx = rhs_next_idx])

\* A witness after add_hint of each of hs in turn.
RECURSIVE Filled(_)
Filled(hs) ==
    IF hs = <<>> THEN ArrayWitnessDefault
    ELSE add_hint(Filled(SubSeq(hs, 1, Len(hs) - 1)),
                  hs[Len(hs)].ty, hs[Len(hs)].value)

\* The hints recording has left in the witnesses when the threads start.
Prefilled ==
    [w \in Witnesses |->
       IF w = "a"
       THEN <<[ty |-> "u8", value |-> 1], [ty |-> "u8", value |-> 2],
              [ty |-> "u16", value |-> 258]>>
       ELSE <<[ty |-> "u16", value |-> 2], [ty |-> "u8", value |-> 1]>>]

\* ---------------------------------------------------------------- modules
\* The order module and the counter module, run on a working set.  The
\* working set, the state values and the two storages are code of the
\* repository that the modules call (sov_modules_api::WorkingSet,
\* StateValue, StateMap, sov_state::ProverStorage, ZkStorage): a working set
\* keeps what was written and what was read in a cache and asks its storage
\* only for a key that is not in the cache; the prover storage reads its
\* database and records the Option<StorageValue> it read as a hint, the zk
\* storage has no data and returns the next hint.
Addresses == {1, 2}

\* Storage keys: the prefix of each state value of the two modules (the
\* order map is only ever used with the one id 12345678).
StateKeys == {"order_admin", "order_orders", "counter_admin", "counter_count"}

\* The codec type of the value under each key: an address is held as one
\* byte, an order by the one byte that tells it from another, the count is
\* a u32.
CodecType(key) == IF key = "counter_count" THEN "u32" ELSE "u8"

\* WorkingSet::new / WorkingSet::with_witness: nothing cached, no event.
WorkingSetNew == [cache |-> EmptyMap, events |-> <<>>]

\* The execution context of a call: the working set, its witness, and its
\* storage (the database when zk is FALSE, nothing when it is TRUE).
Run(ws, w, d, zk) == [working_set |-> ws, witness |-> w, db |-> d, zk |-> zk]

\* ZkStorage::get on the outcome r of get_hint: the hint read, or the panic.
HintRead(r) ==
    [witness |-> r.w, panic |-> r.panic,
     value |-> IF r.panic THEN None ELSE r.ret.value]

\* ProverStorage::get on the value v found in the database: v is recorded
\* as a hint of the witness w and returned.
DbRead(w, v) ==
    [witness |-> add_hint(w, "option", v), panic |-> FALSE, value |-> v]

\* ProverStorage::get: the value in the database, recorded as a hint.
\* ZkStorage::get: the next hint.
StorageGet(rt, key) ==
    IF rt.zk
    THEN HintRead(get_hint(rt.witness, "option"))
    ELSE DbRead(rt.witness, IF key \in DOMAIN rt.db THEN Some(rt.db[key]) ELSE None)

\* WorkingSet get of a key that is not cached, g being what the storage
\* gave: the value is cached, the witness is the one the storage left.
CacheMiss(rt, key, g) ==
    [rt |-> IF g.panic THEN [rt EXCEPT !.witness = g.witness]
            ELSE [rt EXCEPT !.witness = g.witness,
                            !.working_set.cache = MapInsert(@, key, g.value)],
     panic |-> g.panic,
     value |-> g.value]

\* WorkingSet get: the cached value, else the value of the storage, which
\* is then cached.
WorkingSetGet(rt, key) ==
    IF key \in DOMAIN rt.working_set.cache
    THEN [rt |-> rt, panic |-> FALSE, value |-> rt.working_set.cache[key]]
    ELSE CacheMiss(rt, key, StorageGet(rt, key))

\* The codec of a state value applied to what the working set gave for key.
Decoded(key, g) ==
    [rt |-> g.rt, panic |-> g.panic,
     value |-> IF g.panic \/ ~g.value.some THEN None
               ELSE deserialize_reader(CodecType(key), g.value.value)]

\* StateValue::get / StateMap::get: the stored bytes decoded.
StateGet(rt, key) == Decoded(key, WorkingSetGet(rt, key))

\* StateValue::set / StateMap::set: the encoded value goes to the cache.
StateSet(rt, key, v) ==
    [rt EXCEPT !.working_set.cache =
        MapInsert(@, key, Some(try_to_vec(CodecType(key), v)))]

\* WorkingSet::add_event
AddEvent(rt, key, value) ==
    [rt EXCEPT !.working_set.events = Append(@, <<key, value>>)]

\* What a call returns: Ok or Err, with the response or the error, or a
\* panic.
CallOk(rt, v) == [rt |-> rt, ret |-> [kind |-> "Ok", value |-> v]]
CallErr(rt, e) == [rt |-> rt, ret |-> [kind |-> "Err", value |-> e]]
CallPanic(rt) == [rt |-> rt, ret |-> [kind |-> "panic", value |-> "panic"]]

\* OrderModule::init_module / CounterModule::init_module: sets the admin.
init_module(rt, admin_key, admin) == CallOk(StateSet(rt, admin_key, admin), "unit")

\* submit_order storing the order before it looks at the sender.
submit_order_SetFirst(rt, order, sender) ==
    LET rt1 == AddEvent(StateSet(rt, "order_orders", order), "set", <<"order_set", order>>)
        admin == StateGet(rt1, "order_admin")
    IN IF admin.panic THEN CallPanic(admin.rt)
       ELSE IF ~admin.value.some THEN CallErr(admin.rt, "ValueNotFound")
       ELSE IF admin.value.value # sender THEN CallErr(admin.rt, "WrongSender")
       ELSE CallOk(admin.rt, "default")

\* OrderModule::submit_order: get_or_err on the admin, WrongSender when the
\* sender is not the admin, then the order is set under id 12345678 and the
\* event added.
submit_order(rt, order, sender) ==
    LET admin == StateGet(rt, "order_admin") IN
    IF admin.panic THEN CallPanic(admin.rt)
    ELSE IF ~admin.value.some THEN CallErr(admin.rt, "ValueNotFound")
    ELSE IF admin.value.value # sender THEN CallErr(admin.rt, "WrongSender")
    ELSE CallOk(AddEvent(StateSet(admin.rt, "order_orders", order),
                         "set", <<"order_set", order>>),
                "default")

\* OrderModule::query_order: panics when there is no order.
query_order(rt) ==
    LET order == StateGet(rt, "order_orders") IN
    IF order.panic \/ ~order.value.some THEN CallPanic(order.rt)
    ELSE CallOk(order.rt, order.value.value)

\* CounterModule::set_value, as the counter module's tests use it: an error
\* for a sender that is not the admin, else the count is set and the event
\* ("set", "count_set: <value>") added.
set_value(rt, new_value, sender) ==
    LET admin == StateGet(rt, "counter_admin") IN
    IF admin.panic THEN CallPanic(admin.rt)
    ELSE IF ~admin.value.some THEN CallErr(admin.rt, "ValueNotFound")
    ELSE IF admin.value.value # sender THEN CallErr(admin.rt, "WrongSender")
    ELSE CallOk(AddEvent(StateSet(admin.rt, "counter_count", new_value),
                         "set", <<"count_set", new_value>>),
                "default")

\* CounterModule::query_count: the count, or None.
query_count(rt) ==
    LET count == StateGet(rt, "counter_count") IN
    IF count.panic THEN CallPanic(count.rt)
    ELSE CallOk(count.rt, count.value)

\* The calls a run is made of.
ModuleCalls ==
    {[fn |-> "order_genesis", arg |-> 0, sender |-> a] : a \in Addresses}
    \cup {[fn |-> "counter_genesis", arg |-> 0, sender |-> a] : a \in Addresses}
    \cup {[fn |-> "submit_order", arg |-> 7, sender |-> a] : a \in Addresses}
    \cup {[fn |-> "set_value", arg |-> v, sender |-> a] : v \in {11, 99}, a \in Addresses}
    \cup {[fn |-> "query_order", arg |-> 0, sender |-> 1],
          [fn |-> "query_count", arg |-> 0, sender |-> 1]}

\* Module::genesis / Module::call / the query of a module: the call c made
\* in the context rt (for a genesis, sender is the admin of the config).
ModuleCall(rt, c) ==
    IF c.fn = "order_genesis" THEN init_module(rt, "order_admin", c.sender)
    ELSE IF c.fn = "counter_genesis" THEN init_module(rt, "counter_admin", c.sender)
    ELSE IF c.fn = "submit_order" THEN submit_order(rt, c.arg, c.sender)
    ELSE IF c.fn = "set_value" THEN set_value(rt, c.arg, c.sender)
    ELSE IF c.fn = "query_order" THEN query_order(rt)
    ELSE query_count(rt)

\* Storage::validate_and_commit: the writes and reads of a frozen working
\* set applied to the database.
Committed(d, ws) ==
    [k \in (DOMAIN d \cup {x \in DOMAIN ws.cache : ws.cache[x].some}) |->
       IF k \in DOMAIN ws.cache THEN ws.cache[k].value ELSE d[k]]

\* The databases a native run starts on: a new one, or what earlier runs
\* have committed.
DbInputs ==
    {EmptyMap}
    \cup {Committed(EmptyMap,
             ModuleCall(ModuleCall(Run(WorkingSetNew, ArrayWitnessDefault, EmptyMap, FALSE),
                                   [fn |-> "order_genesis", arg |-> 0, sender |-> 1]).rt,
                        [fn |-> "counter_genesis", arg |-> 0, sender |-> 2]).rt.working_set)}
    \cup {Committed(EmptyMap,
             ModuleCall(ModuleCall(Run(WorkingSetNew, ArrayWitnessDefault, EmptyMap, FALSE),
                                   [fn |-> "counter_genesis", arg |-> 0, sender |-> 1]).rt,
                        [fn |-> "set_value", arg |-> 99, sender |-> 1]).rt.working_set)}

\* --------------------------------------------------------------- template
\* The StateTransitionFunction of AppTemplate.  Its runtime RT is a type
\* parameter: what genesis, pre_blob_hook, decode_call and dispatch_call do
\* is an input of each call.  A checkpoint is the log of the writes made on
\* it; the storage is the logs committed to it, in order.
NewStorage == [committed |-> <<>>]

\* Storage::validate_and_commit
validate_and_commit(storage, log) ==
    [storage EXCEPT !.committed = Append(@, log)]

\* StateCheckpoint::new / StateCheckpoint::with_witness over a storage.
StateCheckpointNew == [log |-> <<>>]

\* The blobs handed to apply_sync_data_blob: pre_blob_hook accepts the blob
\* or not, its data decodes to a call or not, and the call writes a value.
Blobs == [hook_ok : BOOLEAN, decodes : BOOLEAN, writes : {1}]

\* init_chain: genesis on a working set over the storage, an error of it a
\* panic, then the log is committed.
init_chain(t, genesis_ok) ==
    IF ~genesis_ok THEN [t |-> t, panic |-> TRUE]
    ELSE [t |-> [t EXCEPT !.current_storage =
                    validate_and_commit(t.current_storage, <<"genesis">>)],
          panic |-> FALSE]

\* begin_slot: a new checkpoint over the current storage.
begin_slot(t) == [t EXCEPT !.checkpoint = Some(StateCheckpointNew)]


\* end_slot: takes the checkpoint (unwrap panics when there is none),
\* freezes it and commits its log to the current storage.
end_slot(t) ==
    IF ~t.checkpoint.some
    THEN [t |-> [t EXCEPT !.checkpoint = None], panic |-> TRUE]
    ELSE [t |-> [t EXCEPT !.checkpoint = None,
                          !.current_storage =
                             validate_and_commit(t.current_storage,
                                                 t.checkpoint.value.log)],
          panic |-> FALSE]

\* apply_sync_data_blob: takes the checkpoint (expect panics when there is
\* none) and turns it into the batch workspace, a local of the call that
\* is dropped on return together with what dispatch_call wrote to it.
apply_sync_data_blob(t, blob) ==
    IF ~t.checkpoint.some
    THEN [t |-> [t EXCEPT !.checkpoint = None], panic |-> TRUE, ret |-> "none"]
    ELSE LET batch_workspace == t.checkpoint.value
             t1 == [t EXCEPT !.checkpoint = None]
         IN IF ~blob.hook_ok
            THEN [t |-> t1, panic |-> FALSE, ret |-> "Ignored"]
            ELSE IF ~blob.decodes
            THEN [t |-> t1, panic |-> FALSE, ret |-> "Slashed(InvalidBatchEncoding)"]
            ELSE [t |-> t1, panic |-> FALSE, ret |-> "Rewarded(0)"]

\* ----------------------------------------------------------------- geyser
\* The account-proof geyser plugin.  The validator's plugin manager calls
\* on_load once on a plugin it has created, then the notifications, then
\* on_unload; on_load spawns the worker thread, which keeps its
\* accumulators as locals of process_messages and receives the messages the
\* plugin sends on an unbounded channel.
STARTUP_END_OF_RECEIVED == 1
STARTUP_PROCESSED_RECEIVED == 2

\* Whether the flag (one bit) is set in x.
FlagSet(x, flag) == (x \div flag) % 2 = 1

\* AtomicU8::fetch_or with a flag: the value with the flag set.
fetch_or(x, flag) == IF FlagSet(x, flag) THEN x ELSE x + flag

GeyserSlots == {1, 2}
WriteVersions == {1, 2}
SlotStatuses == {"Processed", "Confirmed", "Rooted"}

\* The messages of the channel.  There is one account (pubkey "p"), whose
\* state is told by its write version; a transaction has one signature.
AccountMessage(slot, write_version) ==
    [kind |-> "AccountMessage", slot |-> slot, pubkey |-> "p",
     write_version |-> write_version]
TransactionMessage(slot) == [kind |-> "TransactionMessage", slot |-> slot, num_sigs |-> 1]
BlockMessage(slot) == [kind |-> "BlockMessage", slot |-> slot]
SlotMessage(slot, status) == [kind |-> "SlotMessage", slot |-> slot, status |-> status]

\* No channel before on_load; unbounded(): an empty queue, the sender alive.
NoChannel == [queue |-> <<>>, sender |-> FALSE]
unbounded == [queue |-> <<>>, sender |-> TRUE]

\* The plugin and its channel as one record.
Plugin == [inner |-> inner, geyser_channel |-> geyser_channel]

\* PluginInner::send_message
send_message(g, message) ==
    [g EXCEPT !.geyser_channel.queue = Append(@, message)]

\* with_inner forwarding as soon as any flag is set.
with_inner_AnyFlag(g, message) ==
    IF ~g.inner.some THEN [g |-> g, panic |-> TRUE]
    ELSE IF g.inner.value.startup_status # 0
    THEN [g |-> send_message(g, message), panic |-> FALSE]
    ELSE [g |-> g, panic |-> FALSE]

\* Plugin::with_inner with a closure that sends the message: expect panics
\* when there is no inner; the closure runs only when startup_status is
\* exactly both flags.
with_inner(g, message) ==
    IF ~g.inner.some THEN [g |-> g, panic |-> TRUE]
    ELSE IF g.inner.value.startup_status
              = STARTUP_END_OF_RECEIVED + STARTUP_PROCESSED_RECEIVED
    THEN [g |-> send_message(g, message), panic |-> FALSE]
    ELSE [g |-> g, panic |-> FALSE]

\* Plugin::on_load: a new channel and a new inner with no flag set.
on_load(g) ==
    [inner |-> Some([startup_status |-> 0]), geyser_channel |-> unbounded]

\* Plugin::on_unload: takes the inner and drops its sender.
on_unload(g) ==
    IF g.inner.some
    THEN [inner |-> None, geyser_channel |-> [g.geyser_channel EXCEPT !.sender = FALSE]]
    ELSE g

\* Plugin::notify_end_of_startup
notify_end_of_startup(g) ==
    IF ~g.inner.some THEN [g |-> g, panic |-> TRUE]
    ELSE [g |-> [g EXCEPT !.inner.value.startup_status =
                    fetch_or(@, STARTUP_END_OF_RECEIVED)],
          panic |-> FALSE]

\* Plugin::update_slot_status: sets the second flag when the status is
\* exactly the first flag and the slot is Processed, then goes through
\* with_inner.
update_slot_status(g, slot, status) ==
    IF ~g.inner.some THEN [g |-> g, panic |-> TRUE]
    ELSE LET g1 == IF /\ g.inner.value.startup_status = STARTUP_END_OF_RECEIVED
                      /\ status = "Processed"
                   THEN [g EXCEPT !.inner.value.startup_status =
                            fetch_or(@, STARTUP_PROCESSED_RECEIVED)]
                   ELSE g
         IN with_inner(g1, SlotMessage(slot, status))

\* Plugin::update_account / notify_transaction / notify_block_metadata
update_account(g, slot, write_version) ==
    with_inner(g, AccountMessage(slot, write_version))
notify_transaction(g, slot) == with_inner(g, TransactionMessage(slot))
notify_block_metadata(g, slot) == with_inner(g, BlockMessage(slot))

\* The locals of process_messages when the worker starts.
WorkerNew ==
    [raw_slot_account_accumulator |-> EmptyMap,
     processed_slot_account_accumulator |-> EmptyMap,
     raw_transaction_accumulator |-> EmptyMap,
     processed_transaction_accumulator |-> EmptyMap,
     block_accumulator |-> EmptyMap,
     received |-> "none"]

\* hash_solana_account: the hash of the account as it is at a write version.
hash_solana_account(write_version) == <<"hash", write_version>>

\* transfer_slot: the entry of the slot moves from raw to processed.
transfer_slot(slot, raw, processed) ==
    IF slot \in DOMAIN raw
    THEN [raw |-> MapRemove(raw, slot), processed |-> MapInsert(processed, slot, raw[slot])]
    ELSE [raw |-> raw, processed |-> processed]

\* handle_processed_slot
handle_processed_slot(wk, slot) ==
    LET a == transfer_slot(slot, wk.raw_slot_account_accumulator,
                           wk.processed_slot_account_accumulator)
        t == transfer_slot(slot, wk.raw_transaction_accumulator,
                           wk.processed_transaction_accumulator)
    IN [wk EXCEPT !.raw_slot_account_accumulator = a.raw,
                  !.processed_slot_account_accumulator = a.processed,
                  !.raw_transaction_accumulator = t.raw,
                  !.processed_transaction_accumulator = t.processed]

\* handle_confirmed_slot: an error when the block, the signature count or
\* the account hashes of the slot are missing, else the slot is removed
\* from the three accumulators.
handle_confirmed_slot(wk, slot) ==
    IF slot \notin DOMAIN wk.block_accumulator
    THEN [wk |-> wk, err |-> "block not available"]
    ELSE IF slot \notin DOMAIN wk.processed_transaction_accumulator
    THEN [wk |-> wk, err |-> "list of txns not available"]
    ELSE IF slot \notin DOMAIN wk.processed_slot_account_accumulator
    THEN [wk |-> wk, err |-> "account hashes not available"]
    ELSE [wk |-> [wk EXCEPT
                    !.block_accumulator = MapRemove(@, slot),
                    !.processed_slot_account_accumulator = MapRemove(@, slot),
                    !.processed_transaction_accumulator = MapRemove(@, slot)],
          err |-> "none"]

\* The arms of the match in process_messages for a received message.
process_message(wk, m) ==
    IF m.kind = "AccountMessage"
    THEN LET slot_entry == IF m.slot \in DOMAIN wk.raw_slot_account_accumulator
                           THEN wk.raw_slot_account_accumulator[m.slot] ELSE EmptyMap
             account_entry == IF m.pubkey \in DOMAIN slot_entry
                              THEN slot_entry[m.pubkey] ELSE <<0, "default">>
         IN [wk EXCEPT !.raw_slot_account_accumulator =
                MapInsert(@, m.slot,
                   MapInsert(slot_entry, m.pubkey,
                      IF m.write_version > account_entry[1]
                      THEN <<m.write_version, hash_solana_account(m.write_version)>>
                      ELSE account_entry))]
    ELSE IF m.kind = "TransactionMessage"
    THEN [wk EXCEPT !.raw_transaction_accumulator =
             MapInsert(@, m.slot,
                (IF m.slot \in DOMAIN @ THEN @[m.slot] ELSE 0) + m.num_sigs)]
    ELSE IF m.kind = "BlockMessage"
    THEN [wk EXCEPT !.block_accumulator = MapInsert(@, m.slot, [slot |-> m.slot])]
    ELSE IF m.status = "Processed" THEN handle_processed_slot(wk, m.slot)
    ELSE IF m.status = "Confirmed" THEN handle_confirmed_slot(wk, m.slot).wk
    ELSE wk

\* ---------------------------------------------------------------- actions
\* Life-cycle states of a block hash (history, not read by the program).
LifeStates == {"Unknown", "Registered", "Pending", "Finalized", "Discarded"}

Init ==
    /\ snapshots = NewManager.snapshots
    /\ chain_forks = NewManager.chain_forks
    /\ blocks_to_parent = NewManager.blocks_to_parent
    /\ latest_snapshot_id = NewManager.latest_snapshot_id
    /\ snapshot_id_to_block_hash = NewManager.snapshot_id_to_block_hash
    /\ store = NewStore
    /\ outcome = "ok"
    /\ last = [op |-> "new"]
    /\ issued = <<>>
    /\ life = [h \in Hashes |-> "Unknown"]
    /\ next_idx = [w \in Witnesses |-> ArrayWitnessDefault.next_idx]
    /\ hints = [w \in Witnesses |-> ArrayWitnessDefault.hints]
    /\ recorded = [w \in Witnesses |-> <<>>]
    /\ replayed = [w \in Witnesses |-> <<>>]
    /\ merged = [w \in Witnesses |-> FALSE]
    /\ threads = [t \in Threads |-> ThreadIdle(0)]
    /\ lock = [w \in Witnesses |-> "free"]
    /\ reads = {}
    /\ db = EmptyMap
    /\ phase = "native"
    /\ working_set = WorkingSetNew
    /\ script = <<>>
    /\ native_final = WorkingSetNew
    /\ zk_results = <<>>
    /\ checkpoint = None
    /\ current_storage = NewStorage
    /\ slots = 0
    /\ inner = None
    /\ geyser_channel = NoChannel
    /\ worker = None
    /\ notifications = 0
\* The manager's fields after a call.
Install(m) ==
    /\ snapshots' = m.snapshots
    /\ chain_forks' = m.chain_forks
    /\ blocks_to_parent' = m.blocks_to_parent
    /\ latest_snapshot_id' = m.latest_snapshot_id
    /\ snapshot_id_to_block_hash' = m.snapshot_id_to_block_hash

Outcome(panic) == IF panic THEN "panic" ELSE "ok"

\* The hashes a header may carry as its own.  Hashes are opaque and only
\* compared for equality, so of the runs that differ by a renaming of hashes
\* one is kept: a hash that was never registered before is the smallest such.
EverRegistered == {h \in Hashes : life[h] # "Unknown"}
HeaderHashes == {h \in Hashes : h <= Cardinality(EverRegistered) + 1}

\* A call of get_new_ref with a header (hash, prev_hash).
GetNewRef ==
    /\ outcome = "ok"
    /\ latest_snapshot_id < MaxId
    /\ \E h \in HeaderHashes, p \in ParentHashes :
         LET r == get_new_ref(Mgr, h, p) IN
         /\ Install(r.m)
         /\ outcome' = Outcome(r.panic)
         /\ last' = [op |-> "get_new_ref", hash |-> h, prev |-> p, ret |-> r.ret]
         /\ issued' = IF r.panic THEN issued
                      ELSE Append(issued, [id |-> r.ret, hash |-> h])
         /\ life' = IF r.panic THEN life ELSE [life EXCEPT ![h] = "Registered"]
         /\ UNCHANGED store
         /\ UNCHANGED <<witness_vars, thread_vars, module_vars, template_vars, geyser_vars>>

\* A call of add_snapshot with any snapshot.
AddSnapshot ==
    /\ outcome = "ok"
    /\ \E s \in SnapshotInputs :
         LET r == add_snapshot(Mgr, s) IN
         /\ Install(r.m)
         /\ outcome' = Outcome(r.panic)
         /\ last' = [op |-> "add_snapshot", snapshot |-> s]
         /\ life' = IF r.panic THEN life
                    ELSE [life EXCEPT ![snapshot_id_to_block_hash[get_id(s)]] = "Pending"]
         /\ UNCHANGED <<store, issued>>
         /\ UNCHANGED <<witness_vars, thread_vars, module_vars, template_vars, geyser_vars>>

\* A call of finalize_snapshot with any block hash; the store answers the
\* commit's writes with success or with an error.
FinalizeSnapshot ==
    /\ outcome = "ok"
    /\ \E h \in Hashes, fault \in StoreFaults :
         LET r == finalize_snapshot(Mgr, store, h, fault) IN
         /\ Install(r.m)
         /\ store' = r.store
         /\ outcome' = Outcome(r.panic)
         /\ last' = [op |-> "finalize_snapshot", hash |-> h, discarded |-> r.discarded]
         /\ life' = [x \in Hashes |->
                       IF x \in SeqRange(r.discarded) THEN "Discarded"
                       ELSE IF x = h /\ r.committed THEN "Finalized"
                       ELSE life[x]]
         /\ UNCHANGED issued
         /\ UNCHANGED <<witness_vars, thread_vars, module_vars, template_vars, geyser_vars>>

\* A call of query_storage_value with any id and key.
QueryStorageValue ==
    /\ outcome = "ok"
    /\ \E id \in Ids, key \in Keys :
         /\ last' = [op |-> "query_storage_value", id |-> id, key |-> key,
                     ret |-> query_storage_value(Mgr, id, key)]
         /\ UNCHANGED <<snapshots, chain_forks, blocks_to_parent, latest_snapshot_id,
                        snapshot_id_to_block_hash, store, outcome, issued, life>>
         /\ UNCHANGED <<witness_vars, thread_vars, module_vars, template_vars, geyser_vars>>

\* A call of query_accessory_value with any id and key.
QueryAccessoryValue ==
    /\ outcome = "ok"
    /\ \E id \in Ids, key \in Keys :
         /\ last' = [op |-> "query_accessory_value", id |-> id, key |-> key,
                     ret |-> query_accessory_value(Mgr, id, key)]
         /\ UNCHANGED <<snapshots, chain_forks, blocks_to_parent, latest_snapshot_id,
                        snapshot_id_to_block_hash, store, outcome, issued, life>>
         /\ UNCHANGED <<witness_vars, thread_vars, module_vars, template_vars, geyser_vars>>

\* A call of is_empty.
IsEmpty ==
    /\ outcome = "ok"
    /\ last' = [op |-> "is_empty", ret |-> is_empty(Mgr)]
    /\ UNCHANGED <<snapshots, chain_forks, blocks_to_parent, latest_snapshot_id,
                   snapshot_id_to_block_hash, store, outcome, issued, life>>
    /\ UNCHANGED <<witness_vars, thread_vars, module_vars, template_vars, geyser_vars>>

Next ==
    \/ IsEmpty
    \/ GetNewRef
    \/ AddSnapshot
    \/ FinalizeSnapshot
    \/ QueryStorageValue
    \/ QueryAccessoryValue

Spec == Init /\ [][Next]_vars

\* ------------------------------------------------------- witness actions
\* A call of add_hint on a witness with a value of one of the types.
AddHint ==
    /\ outcome = "ok"
    /\ \E w \in Witnesses, ty \in HintTypes :
         /\ Len(recorded["a"]) + Len(recorded["b"]) < MaxHints
         /\ \E v \in HintValues(ty) :
              /\ hints' = [hints EXCEPT ![w] = add_hint(Wit(w), ty, v).hints]
              /\ recorded' = [recorded EXCEPT ![w] = Append(@, [ty |-> ty, value |-> v])]
              /\ last' = [op |-> "add_hint", w |-> w, ty |-> ty, value |-> v]
         /\ UNCHANGED <<next_idx, replayed, merged, outcome>>
         /\ UNCHANGED <<manager_vars, thread_vars, module_vars, template_vars, geyser_vars>>

\* A call of get_hint::<ty> on a witness.
GetHint ==
    /\ outcome = "ok"
    /\ \E w \in Witnesses, ty \in HintTypes :
         LET r == get_hint(Wit(w), ty) IN
         /\ next_idx' = [next_idx EXCEPT ![w] = r.w.next_idx]
         /\ hints' = [hints EXCEPT ![w] = r.w.hints]
         /\ outcome' = Outcome(r.panic)
         /\ last' = [op |-> "get_hint", w |-> w, ty |-> ty, ret |-> r.ret]
         /\ replayed' = IF r.panic THEN replayed
                        ELSE [replayed EXCEPT ![w] =
                                Append(@, [ty |-> ty, value |-> r.ret.value])]
         /\ UNCHANGED <<recorded, merged>>
         /\ UNCHANGED <<manager_vars, thread_vars, module_vars, template_vars, geyser_vars>>

\* A call of self.merge(rhs), rhs another witness or self itself.
Merge ==
    /\ outcome = "ok"
    /\ \E self \in Witnesses, rhs \in Witnesses :
         /\ IF self = rhs
            THEN /\ outcome' \in SelfMergeOutcomes
                 /\ UNCHANGED <<next_idx, hints>>
            ELSE LET r == merge(Wit(self), Wit(rhs)) IN
                 /\ hints' = [hints EXCEPT ![self] = r.self.hints, ![rhs] = r.rhs.hints]
                 /\ outcome' = Outcome(r.panic)
                 /\ UNCHANGED next_idx
         /\ last' = [op |-> "merge", self |-> self, rhs |-> rhs]
         /\ merged' = [merged EXCEPT ![self] = TRUE, ![rhs] = TRUE]
         /\ UNCHANGED <<recorded, replayed>>
         /\ UNCHANGED <<manager_vars, thread_vars, module_vars, template_vars, geyser_vars>>

WitnessNext ==
    \/ AddHint
    \/ GetHint
    \/ Merge

WitnessSpec == Init /\ [][WitnessNext]_vars

\* -------------------------------------------------------- thread actions
\* get_hint, first step: the fetch_add.
TGetHintFetchAdd(t) ==
    /\ threads[t].pc = "idle"
    /\ threads[t].calls < MaxCalls
    /\ \E w \in Witnesses, ty \in HintTypes :
         LET f == fetch_add(Wit(w), ty) IN
         /\ next_idx' = [next_idx EXCEPT ![w] = f.next_idx]
         /\ threads' = [threads EXCEPT ![t] =
                          [pc |-> "get_hint_lock", calls |-> @.calls + 1,
                           w |-> w, ty |-> ty, idx |-> f.idx, rhs |-> "a"]]
    /\ UNCHANGED <<hints, lock, reads, recorded, replayed, merged, outcome, last>>
    /\ UNCHANGED <<manager_vars, module_vars, template_vars, geyser_vars>>

\* get_hint, second step: lock().unwrap(), the indexing and the decoding.
\* The call waits while another thread holds the lock.
TGetHintRead(t) ==
    LET th == threads[t] IN
    /\ th.pc = "get_hint_lock"
    /\ lock[th.w] \in {"free", "poisoned"}
    /\ IF lock[th.w] = "poisoned"
       THEN /\ threads' = [threads EXCEPT ![t].pc = "panicked"]
            /\ reads' = reads \cup {[t |-> t, n |-> th.calls, w |-> th.w,
                                     idx |-> th.idx, ty |-> th.ty, ret |-> None]}
            /\ UNCHANGED lock
       ELSE LET r == read_locked(hints[th.w], th.idx, th.ty) IN
            /\ threads' = [threads EXCEPT ![t] =
                             IF r.panic THEN [@ EXCEPT !.pc = "panicked"]
                             ELSE ThreadIdle(@.calls)]
            /\ lock' = [lock EXCEPT ![th.w] = IF r.panic THEN "poisoned" ELSE "free"]
            /\ reads' = reads \cup {[t |-> t, n |-> th.calls, w |-> th.w,
                                     idx |-> th.idx, ty |-> th.ty, ret |-> r.ret]}
    /\ UNCHANGED <<next_idx, hints, recorded, replayed, merged, outcome, last>>
    /\ UNCHANGED <<manager_vars, module_vars, template_vars, geyser_vars>>

\* merge, first step: the load of rhs.next_idx (kept in idx).
TMergeLoad(t) ==
    /\ threads[t].pc = "idle"
    /\ threads[t].calls < MaxCalls
    /\ \E self \in Witnesses, rhs \in Witnesses :
         threads' = [threads EXCEPT ![t] =
                       [pc |-> "merge_lock_self", calls |-> @.calls + 1,
                        w |-> self, ty |-> "u8", idx |-> next_idx[rhs], rhs |-> rhs]]
    /\ UNCHANGED <<next_idx, hints, lock, reads, recorded, replayed, merged,
                   outcome, last>>
    /\ UNCHANGED <<manager_vars, module_vars, template_vars, geyser_vars>>

\* merge, second step: self.hints.lock().unwrap().
TMergeLockSelf(t) ==
    LET th == threads[t] IN
    /\ th.pc = "merge_lock_self"
    /\ lock[th.w] \in {"free", "poisoned"}
    /\ IF lock[th.w] = "poisoned"
       THEN /\ threads' = [threads EXCEPT ![t].pc = "panicked"]
            /\ UNCHANGED lock
       ELSE /\ threads' = [threads EXCEPT ![t].pc = "merge_lock_rhs"]
            /\ lock' = [lock EXCEPT ![th.w] = t]
    /\ UNCHANGED <<next_idx, hints, reads, recorded, replayed, merged, outcome, last>>
    /\ UNCHANGED <<manager_vars, module_vars, template_vars, geyser_vars>>

\* merge, third step: rhs.hints.lock().unwrap() and the drain.  The call
\* waits while another thread holds the lock of rhs; when rhs is self the
\* thread holds that lock itself, and the second lock panics or blocks for
\* ever.  A panic here unwinds with the guard of self (and that of rhs when
\* it was taken), which poisons the locks.
TMergeLockRhs(t) ==
    LET th == threads[t] IN
    /\ th.pc = "merge_lock_rhs"
    /\ lock[th.rhs] \in {"free", "poisoned", t}
    /\ IF lock[th.rhs] = t
       THEN /\ \E o \in SelfMergeOutcomes :
                 IF o = "panic"
                 THEN /\ threads' = [threads EXCEPT ![t].pc = "panicked"]
                      /\ lock' = [lock EXCEPT ![th.w] = "poisoned"]
                 ELSE /\ threads' = [threads EXCEPT ![t].pc = "deadlocked"]
                      /\ UNCHANGED lock
            /\ UNCHANGED <<hints, merged>>
       ELSE IF lock[th.rhs] = "poisoned"
       THEN /\ threads' = [threads EXCEPT ![t].pc = "panicked"]
            /\ lock' = [lock EXCEPT ![th.w] = "poisoned"]
            /\ UNCHANGED <<hints, merged>>
       ELSE LET r == drain_locked(Wit(th.w), Wit(th.rhs), th.idx) IN
            /\ hints' = [hints EXCEPT ![th.w] = r.self.hints, ![th.rhs] = r.rhs.hints]
            /\ threads' = [threads EXCEPT ![t] =
                             IF r.panic THEN [@ EXCEPT !.pc = "panicked"]
                             ELSE ThreadIdle(@.calls)]
            /\ lock' = [lock EXCEPT
                          ![th.w] = IF r.panic THEN "poisoned" ELSE "free",
                          ![th.rhs] = IF r.panic THEN "poisoned" ELSE "free"]
            /\ merged' = [merged EXCEPT ![th.w] = TRUE, ![th.rhs] = TRUE]
    /\ UNCHANGED <<next_idx, reads, recorded, replayed, outcome, last>>
    /\ UNCHANGED <<manager_vars, module_vars, template_vars, geyser_vars>>

\* The threads start on witnesses that hold the recorded hints.
ConcurrentInit ==
    /\ snapshots = NewManager.snapshots
    /\ chain_forks = NewManager.chain_forks
    /\ blocks_to_parent = NewManager.blocks_to_parent
    /\ latest_snapshot_id = NewManager.latest_snapshot_id
    /\ snapshot_id_to_block_hash = NewManager.snapshot_id_to_block_hash
    /\ store = NewStore
    /\ outcome = "ok"
    /\ last = [op |-> "new"]
    /\ issued = <<>>
    /\ life = [h \in Hashes |-> "Unknown"]
    /\ next_idx = [w \in Witnesses |-> Filled(Prefilled[w]).next_idx]
    /\ hints = [w \in Witnesses |-> Filled(Prefilled[w]).hints]
    /\ recorded = Prefilled
    /\ replayed = [w \in Witnesses |-> <<>>]
    /\ merged = [w \in Witnesses |-> FALSE]
    /\ threads = [t \in Threads |-> ThreadIdle(0)]
    /\ lock = [w \in Witnesses |-> "free"]
    /\ reads = {}
    /\ db = EmptyMap
    /\ phase = "native"
    /\ working_set = WorkingSetNew
    /\ script = <<>>
    /\ native_final = WorkingSetNew
    /\ zk_results = <<>>
    /\ checkpoint = None
    /\ current_storage = NewStorage
    /\ slots = 0
    /\ inner = None
    /\ geyser_channel = NoChannel
    /\ worker = None
    /\ notifications = 0

ConcurrentNext ==
    \E t \in Threads :
       \/ TGetHintFetchAdd(t)
       \/ TGetHintRead(t)
       \/ TMergeLoad(t)
       \/ TMergeLockSelf(t)
       \/ TMergeLockRhs(t)

ConcurrentSpec == ConcurrentInit /\ [][ConcurrentNext]_vars

\* The threads are scheduled fairly: a thread that is inside a call and can
\* take its next step (the lock it asks for is free, or poisoned, or its
\* own) eventually takes it.  Nothing makes a thread start a call.
ThreadsFair ==
    \A t \in Threads :
       /\ WF_vars(TGetHintRead(t))
       /\ WF_vars(TMergeLockSelf(t))
       /\ WF_vars(TMergeLockRhs(t))

ConcurrentFairSpec == ConcurrentSpec /\ ThreadsFair

\* -------------------------------------------------------- module actions
\* The native run and its replay use the witness "a".
RunWitness == "a"

\* A module call of the native run, on a WorkingSet over ProverStorage.  A
\* call that panics ends the run.
NativeCall ==
    /\ phase = "native"
    /\ Len(script) < MaxOps
    /\ IF script = <<>> THEN TRUE ELSE script[Len(script)].ret.kind # "panic"
    /\ \E c \in ModuleCalls :
         LET r == ModuleCall(Run(working_set, Wit(RunWitness), db, FALSE), c) IN
         /\ working_set' = r.rt.working_set
         /\ hints' = [hints EXCEPT ![RunWitness] = r.rt.witness.hints]
         /\ next_idx' = [next_idx EXCEPT ![RunWitness] = r.rt.witness.next_idx]
         /\ script' = Append(script, [call |-> c, ret |-> r.ret])
         /\ last' = [op |-> "module_call", call |-> c, ret |-> r.ret]
    /\ UNCHANGED <<db, phase, native_final, zk_results, recorded, replayed, merged,
                   outcome>>
    /\ UNCHANGED <<manager_vars, thread_vars, template_vars, geyser_vars>>

\* let (_, witness) = working_set.checkpoint().freeze(), and then
\* WorkingSet::with_witness(ZkStorage::new(), witness).
Freeze ==
    /\ phase = "native"
    /\ phase' = "zk"
    /\ native_final' = working_set
    /\ working_set' = WorkingSetNew
    /\ last' = [op |-> "freeze"]
    /\ UNCHANGED <<db, script, zk_results, outcome>>
    /\ UNCHANGED <<manager_vars, witness_vars, thread_vars, template_vars, geyser_vars>>

\* The next call of the script made again, on the WorkingSet over ZkStorage.
ZkCall ==
    /\ phase = "zk"
    /\ Len(zk_results) < Len(script)
    /\ IF zk_results = <<>> THEN TRUE ELSE zk_results[Len(zk_results)].kind # "panic"
    /\ LET c == script[Len(zk_results) + 1].call
           r == ModuleCall(Run(working_set, Wit(RunWitness), EmptyMap, TRUE), c)
       IN /\ working_set' = r.rt.working_set
          /\ hints' = [hints EXCEPT ![RunWitness] = r.rt.witness.hints]
          /\ next_idx' = [next_idx EXCEPT ![RunWitness] = r.rt.witness.next_idx]
          /\ zk_results' = Append(zk_results, r.ret)
          /\ last' = [op |-> "module_call", call |-> c, ret |-> r.ret]
    /\ UNCHANGED <<db, phase, script, native_final, recorded, replayed, merged,
                   outcome>>
    /\ UNCHANGED <<manager_vars, thread_vars, template_vars, geyser_vars>>

\* A native run starts on one of the databases.
ModuleInit ==
    /\ snapshots = NewManager.snapshots
    /\ chain_forks = NewManager.chain_forks
    /\ blocks_to_parent = NewManager.blocks_to_parent
    /\ latest_snapshot_id = NewManager.latest_snapshot_id
    /\ snapshot_id_to_block_hash = NewManager.snapshot_id_to_block_hash
    /\ store = NewStore
    /\ outcome = "ok"
    /\ last = [op |-> "new"]
    /\ issued = <<>>
    /\ life = [h \in Hashes |-> "Unknown"]
    /\ next_idx = [w \in Witnesses |-> ArrayWitnessDefault.next_idx]
    /\ hints = [w \in Witnesses |-> ArrayWitnessDefault.hints]
    /\ recorded = [w \in Witnesses |-> <<>>]
    /\ replayed = [w \in Witnesses |-> <<>>]
    /\ merged = [w \in Witnesses |-> FALSE]
    /\ threads = [t \in Threads |-> ThreadIdle(0)]
    /\ lock = [w \in Witnesses |-> "free"]
    /\ reads = {}
    /\ db \in DbInputs
    /\ phase = "native"
    /\ working_set = WorkingSetNew
    /\ script = <<>>
    /\ native_final = WorkingSetNew
    /\ zk_results = <<>>
    /\ checkpoint = None
    /\ current_storage = NewStorage
    /\ slots = 0
    /\ inner = None
    /\ geyser_channel = NoChannel
    /\ worker = None
    /\ notifications = 0

ModuleNext ==
    \/ NativeCall
    \/ Freeze
    \/ ZkCall

ModuleSpec == ModuleInit /\ [][ModuleNext]_vars

\* ------------------------------------------------------ template actions
\* The template's fields as one record, the `self` of its methods.
Template == [checkpoint |-> checkpoint, current_storage |-> current_storage]

InstallTemplate(t) ==
    /\ checkpoint' = t.checkpoint
    /\ current_storage' = t.current_storage

\* A call of init_chain, on a chain not initialized yet.
InitChain ==
    /\ outcome = "ok"
    /\ current_storage = NewStorage
    /\ \E genesis_ok \in BOOLEAN :
         LET r == init_chain(Template, genesis_ok) IN
         /\ InstallTemplate(r.t)
         /\ outcome' = Outcome(r.panic)
    /\ last' = [op |-> "init_chain"]
    /\ UNCHANGED slots
    /\ UNCHANGED <<manager_vars, witness_vars, thread_vars, module_vars, geyser_vars>>

\* A call of begin_slot.
BeginSlot ==
    /\ outcome = "ok"
    /\ slots < MaxSlots
    /\ InstallTemplate(begin_slot(Template))
    /\ slots' = slots + 1
    /\ last' = [op |-> "begin_slot"]
    /\ UNCHANGED outcome
    /\ UNCHANGED <<manager_vars, witness_vars, thread_vars, module_vars, geyser_vars>>

\* A call of apply_sync_data_blob with a blob.
ApplySyncDataBlob ==
    /\ outcome = "ok"
    /\ \E blob \in Blobs :
         LET r == apply_sync_data_blob(Template, blob) IN
         /\ InstallTemplate(r.t)
         /\ outcome' = Outcome(r.panic)
         /\ last' = [op |-> "apply_sync_data_blob", blob |-> blob, ret |-> r.ret]
    /\ UNCHANGED slots
    /\ UNCHANGED <<manager_vars, witness_vars, thread_vars, module_vars, geyser_vars>>

\* A call of end_slot.
EndSlot ==
    /\ outcome = "ok"
    /\ LET r == end_slot(Template) IN
         /\ InstallTemplate(r.t)
         /\ outcome' = Outcome(r.panic)
    /\ last' = [op |-> "end_slot"]
    /\ UNCHANGED slots
    /\ UNCHANGED <<manager_vars, witness_vars, thread_vars, module_vars, geyser_vars>>

\* The slots are driven next to a fork manager that registers the blocks.
TemplateNext ==
    \/ InitChain
    \/ BeginSlot
    \/ ApplySyncDataBlob
    \/ EndSlot
    \/ GetNewRef

TemplateSpec == Init /\ [][TemplateNext]_vars

\* -------------------------------------------------------- geyser actions
InstallPlugin(g) ==
    /\ inner' = g.inner
    /\ geyser_channel' = g.geyser_channel

\* on_load, called on a plugin that was never loaded; the worker starts.
OnLoad ==
    /\ outcome = "ok"
    /\ ~inner.some /\ worker = None
    /\ InstallPlugin(on_load(Plugin))
    /\ worker' = Some(WorkerNew)
    /\ last' = [op |-> "on_load"]
    /\ UNCHANGED <<notifications, outcome>>
    /\ UNCHANGED <<manager_vars, witness_vars, thread_vars, module_vars, template_vars>>

\* on_unload
OnUnload ==
    /\ outcome = "ok"
    /\ InstallPlugin(on_unload(Plugin))
    /\ last' = [op |-> "on_unload"]
    /\ UNCHANGED <<worker, notifications, outcome>>
    /\ UNCHANGED <<manager_vars, witness_vars, thread_vars, module_vars, template_vars>>

\* notify_end_of_startup
NotifyEndOfStartup ==
    /\ outcome = "ok"
    /\ LET r == notify_end_of_startup(Plugin) IN
         /\ InstallPlugin(r.g)
         /\ outcome' = Outcome(r.panic)
    /\ last' = [op |-> "notify_end_of_startup"]
    /\ UNCHANGED <<worker, notifications>>
    /\ UNCHANGED <<manager_vars, witness_vars, thread_vars, module_vars, template_vars>>

\* update_slot_status(slot, _, status)
UpdateSlotStatus ==
    /\ outcome = "ok"
    /\ notifications < MaxNotifications
    /\ \E slot \in GeyserSlots, status \in SlotStatuses :
         LET r == update_slot_status(Plugin, slot, status) IN
         /\ InstallPlugin(r.g)
         /\ outcome' = Outcome(r.panic)
         /\ last' = [op |-> "update_slot_status",
                     message |-> SlotMessage(slot, status)]
    /\ notifications' = notifications + 1
    /\ UNCHANGED worker
    /\ UNCHANGED <<manager_vars, witness_vars, thread_vars, module_vars, template_vars>>

\* update_account(account, slot, _)
UpdateAccount ==
    /\ outcome = "ok"
    /\ notifications < MaxNotifications
    /\ \E slot \in GeyserSlots, write_version \in WriteVersions :
         LET r == update_account(Plugin, slot, write_version) IN
         /\ InstallPlugin(r.g)
         /\ outcome' = Outcome(r.panic)
         /\ last' = [op |-> "update_account",
                     message |-> AccountMessage(slot, write_version)]
    /\ notifications' = notifications + 1
    /\ UNCHANGED worker
    /\ UNCHANGED <<manager_vars, witness_vars, thread_vars, module_vars, template_vars>>

\* notify_transaction(transaction, slot)
NotifyTransaction ==
    /\ outcome = "ok"
    /\ notifications < MaxNotifications
    /\ \E slot \in GeyserSlots :
         LET r == notify_transaction(Plugin, slot) IN
         /\ InstallPlugin(r.g)
         /\ outcome' = Outcome(r.panic)
         /\ last' = [op |-> "notify_transaction", message |-> TransactionMessage(slot)]
    /\ notifications' = notifications + 1
    /\ UNCHANGED worker
    /\ UNCHANGED <<manager_vars, witness_vars, thread_vars, module_vars, template_vars>>

\* notify_block_metadata(blockinfo)
NotifyBlockMetadata ==
    /\ outcome = "ok"
    /\ notifications < MaxNotifications
    /\ \E slot \in GeyserSlots :
         LET r == notify_block_metadata(Plugin, slot) IN
         /\ InstallPlugin(r.g)
         /\ outcome' = Outcome(r.panic)
         /\ last' = [op |-> "notify_block_metadata", message |-> BlockMessage(slot)]
    /\ notifications' = notifications + 1
    /\ UNCHANGED worker
    /\ UNCHANGED <<manager_vars, witness_vars, thread_vars, module_vars, template_vars>>

\* The worker's recv returns a message: the first of the queue.
WorkerRecv ==
    /\ worker.some
    /\ geyser_channel.queue # <<>>
    /\ worker' = Some([process_message(worker.value, Head(geyser_channel.queue))
                         EXCEPT !.received = "Ok"])
    /\ geyser_channel' = [geyser_channel EXCEPT !.queue = Tail(@)]
    /\ UNCHANGED <<inner, notifications, outcome, last>>
    /\ UNCHANGED <<manager_vars, witness_vars, thread_vars, module_vars, template_vars>>

\* The worker's recv returns Err: the queue is empty and the sender was
\* dropped.  The arm `_ => {}` takes it and the loop goes on.
WorkerRecvErr ==
    /\ worker.some
    /\ geyser_channel.queue = <<>>
    /\ ~geyser_channel.sender
    /\ worker' = Some([worker.value EXCEPT !.received = "Err"])
    /\ UNCHANGED <<inner, geyser_channel, notifications, outcome, last>>
    /\ UNCHANGED <<manager_vars, witness_vars, thread_vars, module_vars, template_vars>>

GeyserNext ==
    \/ OnLoad
    \/ OnUnload
    \/ NotifyEndOfStartup
    \/ UpdateSlotStatus
    \/ UpdateAccount
    \/ NotifyTransaction
    \/ NotifyBlockMetadata
    \/ WorkerRecv
    \/ WorkerRecvErr

GeyserSpec == Init /\ [][GeyserNext]_vars

\* The worker thread is scheduled fairly: a recv that can return does.
\* Nothing makes the validator call the plugin.
WorkerFair == WF_vars(WorkerRecv) /\ WF_vars(WorkerRecvErr)

GeyserFairSpec == GeyserSpec /\ WorkerFair

\* ------------------------------------------------------- block relations
\* The n-th ancestor of a block along blocks_to_parent (the block itself for
\* n = 0), None where the chain of recorded parents ends before.
RECURSIVE Ancestor(_, _)
Ancestor(h, n) ==
    IF n = 0 THEN Some(h)
    ELSE LET a == Ancestor(h, n - 1) IN
         IF a.some /\ a.value \in DOMAIN blocks_to_parent
         THEN Some(blocks_to_parent[a.value]) ELSE None

\* A chain that does not repeat a block has at most MaxHash + 1 blocks.
Depths == 0..MaxHash

\* The block and its ancestors.
AncestorsOrSelf(h) == {Ancestor(h, n).value : n \in {d \in Depths : Ancestor(h, d).some}}

\* No block is its own ancestor.
Acyclic == \A h \in DOMAIN blocks_to_parent : \A n \in Depths \ {0} : Ancestor(h, n) # Some(h)

\* The cache of a snapshot that a query reads.
CacheOf(s, accessory) == IF accessory THEN s.accessory_cache ELSE s.cache

\* Block h has a snapshot, and it holds the key in that cache.
Holds(h, key, accessory) ==
    h \in DOMAIN snapshots /\ key \in DOMAIN CacheOf(snapshots[h], accessory)

IsQuery == last.op \in {"query_storage_value", "query_accessory_value"}
QueryIsAccessory == last.op = "query_accessory_value"

\* The queried id belongs to a block whose chain has a snapshot on every
\* block from depth 0 to depth d, and of these only the one at depth d holds
\* the key.
NearestHolderAt(id, key, accessory, d) ==
    /\ id \in DOMAIN snapshot_id_to_block_hash
    /\ \A i \in 0..d :
         LET a == Ancestor(snapshot_id_to_block_hash[id], i) IN
         /\ a.some
         /\ a.value \in DOMAIN snapshots
         /\ Holds(a.value, key, accessory) <=> (i = d)

\* The value found at depth d of the chain of the queried id.
ValueAt(id, key, accessory, d) ==
    CacheOf(snapshots[Ancestor(snapshot_id_to_block_hash[id], d).value], accessory)[key]

\* ----------------------------------------------------------------- claims
\* C1: a query made with the id of a block returns the value of the nearest
\* block on its chain of parents (the block itself first) whose snapshot
\* holds the key, provided every block of the chain up to that one has a
\* snapshot; this holds for query_storage_value and query_accessory_value.
C1_NearestAncestorWins ==
    IsQuery =>
      \A d \in Depths :
        NearestHolderAt(last.id, last.key, QueryIsAccessory, d)
          => last.ret = Some(ValueAt(last.id, last.key, QueryIsAccessory, d))

\* C1 witness: a storage query answered by the parent's snapshot while the
\* grandparent's snapshot holds the key too (three different blocks).
C1_Witness ==
    /\ last.op = "query_storage_value"
    /\ NearestHolderAt(last.id, last.key, FALSE, 1)
    /\ Ancestor(snapshot_id_to_block_hash[last.id], 2).some
    /\ Cardinality({Ancestor(snapshot_id_to_block_hash[last.id], i).value : i \in 0..2}) = 3
    /\ Holds(Ancestor(snapshot_id_to_block_hash[last.id], 2).value, last.key, FALSE)
    /\ last.ret = Some(ValueAt(last.id, last.key, FALSE, 1))

\* The block the last query was made for (0, no block, for an unknown id).
QueriedBlock ==
    IF last.id \in DOMAIN snapshot_id_to_block_hash
    THEN snapshot_id_to_block_hash[last.id] ELSE 0

\* C2: a query made with the id of block X returns only a value that the
\* snapshot of X or of one of its ancestors holds; when the key is held by
\* some snapshot but by none of X and its ancestors, the query returns None.
C2_ForkIsolation ==
    IsQuery =>
      LET own == {a \in AncestorsOrSelf(QueriedBlock) : Holds(a, last.key, QueryIsAccessory)}
          any == {b \in DOMAIN snapshots : Holds(b, last.key, QueryIsAccessory)}
      IN /\ last.ret.some =>
              \E a \in own : CacheOf(snapshots[a], QueryIsAccessory)[last.key] = last.ret.value
         /\ (any # {} /\ own = {}) => last.ret = None

\* C2 on forests: the same statement in the states where no block is its own
\* ancestor.
C2_OnForests == Acyclic => C2_ForkIsolation

\* The children recorded for a block.
Children(h) == IF h \in DOMAIN chain_forks THEN SeqRange(chain_forks[h]) ELSE {}

\* The blocks reachable from a set of blocks through chain_forks in at most
\* n steps, the set included.
RECURSIVE Reachable(_, _)
Reachable(set, n) ==
    IF n = 0 THEN set
    ELSE Reachable(set \cup UNION {Children(h) : h \in set}, n - 1)

\* The siblings of a block: the other children of its parent.
Siblings(h) ==
    IF h \in DOMAIN blocks_to_parent THEN Children(blocks_to_parent[h]) \ {h} ELSE {}

\* The blocks below h: the other blocks reachable from its children.
Descendants(h) == Reachable(Children(h), MaxHash) \ {h}

\* A step that is a call of finalize_snapshot which returns.
FinalizeReturns == last'.op = "finalize_snapshot" /\ outcome' = "ok"

\* Block h is in none of the four maps after the step.
GoneAfter(h) ==
    /\ h \notin DOMAIN snapshots'
    /\ h \notin DOMAIN blocks_to_parent'
    /\ h \notin DOMAIN chain_forks'
    /\ \A p \in DOMAIN chain_forks' : h \notin SeqRange(chain_forks'[p])
    /\ h \notin MapRange(snapshot_id_to_block_hash')

\* What the maps hold for block h is the same after the step.
KeptAfter(h) ==
    /\ h \in DOMAIN snapshots <=> h \in DOMAIN snapshots'
    /\ h \in DOMAIN snapshots => snapshots'[h] = snapshots[h]
    /\ h \in DOMAIN blocks_to_parent'
    /\ blocks_to_parent'[h] = blocks_to_parent[h]
    /\ {i \in DOMAIN snapshot_id_to_block_hash' : snapshot_id_to_block_hash'[i] = h}
         = {i \in DOMAIN snapshot_id_to_block_hash : snapshot_id_to_block_hash[i] = h}

\* What C3 says of one step.
C3_Step ==
    (FinalizeReturns /\ last'.hash \in DOMAIN blocks_to_parent) =>
      /\ \A x \in Reachable(Siblings(last'.hash), MaxHash) : GoneAfter(x)
      /\ \A x \in Descendants(last'.hash) : KeptAfter(x)

\* C3: a finalize_snapshot(C) that returns, C a child of P, leaves no
\* sibling of C and no block reachable from a sibling through chain_forks in
\* any of the four maps, and keeps every descendant of C.
C3_SiblingSubtreesRemoved == [][C3_Step]_vars

\* C3 on forests: the same statement for the steps taken where no block is
\* its own ancestor.
C3_OnForests == [][Acyclic => C3_Step]_vars

\* The state before the last call of the scenario of C4, with A = 0, B = 1,
\* D = 2, C = 3.
C4_ScenarioBefore ==
    /\ outcome = "ok"
    /\ latest_snapshot_id = 3
    /\ snapshot_id_to_block_hash = (1 :> 1) @@ (2 :> 2) @@ (3 :> 3)
    /\ blocks_to_parent = (1 :> 0) @@ (2 :> 0) @@ (3 :> 1)
    /\ chain_forks = (0 :> <<1, 2>>) @@ (1 :> <<3>>)
    /\ DOMAIN snapshots = {1, 2, 3}
    /\ store = NewStore

\* C4: in the scenario A -> B -> C, A -> D, finalize_snapshot(C) removes D
\* from snapshots, blocks_to_parent and chain_forks.
C4_ScenarioRemovesD ==
    [][(C4_ScenarioBefore /\ FinalizeReturns /\ last'.hash = 3)
         => /\ 2 \notin DOMAIN snapshots'
            /\ 2 \notin DOMAIN blocks_to_parent'
            /\ 2 \notin DOMAIN chain_forks'
            /\ \A p \in DOMAIN chain_forks' : 2 \notin SeqRange(chain_forks'[p])]_vars

\* C5: after any sequence of calls that returned, chain_forks and
\* blocks_to_parent are inverses of each other, and no child list holds a
\* block twice.
C5_MutualInverses ==
    outcome = "ok" =>
      /\ \A c \in Hashes, p \in ParentHashes :
           (p \in DOMAIN chain_forks /\ c \in SeqRange(chain_forks[p]))
             <=> (c \in DOMAIN blocks_to_parent /\ blocks_to_parent[c] = p)
      /\ \A p \in DOMAIN chain_forks :
           /\ SeqRange(chain_forks[p]) \subseteq Hashes
           /\ Cardinality(SeqRange(chain_forks[p])) = Len(chain_forks[p])

\* C5 witness: a finalization has discarded a sibling and the finalized
\* block still has a child on record.
C5_Witness ==
    /\ outcome = "ok"
    /\ last.op = "finalize_snapshot"
    /\ last.discarded # <<>>
    /\ last.hash \in DOMAIN chain_forks
    /\ \E c \in DOMAIN blocks_to_parent : blocks_to_parent[c] = last.hash

\* C6 as stated: a hash is a key of snapshots exactly when it is in the
\* range of snapshot_id_to_block_hash and is neither finalized nor discarded.
C6_SnapshotsIffRegistered ==
    \A h \in Hashes :
      h \in DOMAIN snapshots
        <=> (h \in MapRange(snapshot_id_to_block_hash)
             /\ life[h] \notin {"Finalized", "Discarded"})

\* C6 amended: a hash is a key of snapshots exactly when it is in the range
\* of snapshot_id_to_block_hash, add_snapshot has attached a snapshot to it,
\* and it has not been finalized or discarded since.
C6_SnapshotsIffPending ==
    \A h \in Hashes :
      h \in DOMAIN snapshots
        <=> (h \in MapRange(snapshot_id_to_block_hash) /\ life[h] = "Pending")

\* C6 witness: one block finalized, one with a snapshot attached, one
\* registered with none.
C6_Witness ==
    /\ outcome = "ok"
    /\ \E f, a, r \in Hashes :
         /\ life[f] = "Finalized" /\ f \notin DOMAIN snapshots
         /\ life[a] = "Pending" /\ a \in DOMAIN snapshots
         /\ life[r] = "Registered" /\ r \in MapRange(snapshot_id_to_block_hash)

\* C7: no hash is ever given two different ids by get_new_ref.
C7_OneIdPerHash ==
    \A i, j \in 1..Len(issued) :
      issued[i].hash = issued[j].hash => issued[i].id = issued[j].id

\* C8: a call of get_new_ref with a hash that has a recorded parent
\* panics, whatever parent the header carries.
C8_SecondRegistrationFails ==
    [][(last'.op = "get_new_ref" /\ last'.hash \in DOMAIN blocks_to_parent)
         => outcome' = "panic"]_vars

\* C8 witness: get_new_ref has panicked on a registered hash whose second
\* header carries another parent than the first.
C8_Witness ==
    /\ outcome = "panic"
    /\ last.op = "get_new_ref"
    /\ \E p \in DOMAIN chain_forks :
         last.hash \in SeqRange(chain_forks[p]) /\ p # last.prev

\* C9: the ids get_new_ref returns are 1, 2, 3, ... in the order of the
\* calls, whatever add_snapshot and finalize_snapshot calls come between.
C9_IdsCountUp ==
    /\ \A i \in 1..Len(issued) : issued[i].id = i
    /\ (last.op = "get_new_ref" /\ outcome = "ok") => last.ret = Len(issued)

\* C9 witness: three ids returned, the last one after a finalization.
C9_Witness ==
    /\ outcome = "ok"
    /\ last.op = "get_new_ref"
    /\ Len(issued) = 3
    /\ store.version >= 1

\* C10: a finalize_snapshot that returns has made exactly three store calls,
\* write_node_batch and set_values with the batches of the addressed
\* snapshot and then inc_next_version, and the version is one more; the
\* siblings it discarded add nothing.
C10_CommitsExactlyOne ==
    [][FinalizeReturns =>
         /\ last'.hash \in DOMAIN snapshots
         /\ store'.log = store.log \o <<WriteNodeBatch(snapshots[last'.hash]),
                                         SetValues(snapshots[last'.hash]),
                                         IncNextVersion>>
         /\ store'.version = store.version + 1]_vars

\* C10 witness: a finalization that returned after discarding a sibling,
\* with three store calls made in all.
C10_Witness ==
    /\ outcome = "ok"
    /\ last.op = "finalize_snapshot"
    /\ last.discarded # <<>>
    /\ Len(store.log) = 3
    /\ store.version = 1

\* A step that is a call of finalize_snapshot.
FinalizeStep == last'.op = "finalize_snapshot"

\* The four maps of the manager are the same after the step.
MapsUnchanged ==
    /\ snapshots' = snapshots
    /\ chain_forks' = chain_forks
    /\ blocks_to_parent' = blocks_to_parent
    /\ snapshot_id_to_block_hash' = snapshot_id_to_block_hash

\* C11: a call of finalize_snapshot(h) for a hash that was finalized and
\* has not been registered again since panics and writes nothing to the
\* store.
C11_SecondFinalizeFails ==
    [][(FinalizeStep /\ life[last'.hash] = "Finalized")
         => (outcome' = "panic" /\ store' = store)]_vars

\* C11 witness: the only block there was has been finalized, and a second
\* finalize_snapshot of it has panicked with the one commit in the store.
C11_Witness ==
    /\ outcome = "panic"
    /\ last.op = "finalize_snapshot"
    /\ life[last.hash] = "Finalized"
    /\ is_empty(Mgr)
    /\ store.version = 1

\* C12: a call of finalize_snapshot(h) for a hash with no entry in
\* snapshots panics with the store (its writes and its version) and the
\* four maps as they were before the call.
C12_FinalizeWithoutSnapshotAborts ==
    [][(FinalizeStep /\ last'.hash \notin DOMAIN snapshots)
         => (outcome' = "panic" /\ store' = store /\ MapsUnchanged)]_vars

\* C12 witness: finalize_snapshot has panicked on a block that is
\* registered, with a sibling, and has no snapshot attached.
C12_Witness ==
    /\ outcome = "panic"
    /\ last.op = "finalize_snapshot"
    /\ life[last.hash] = "Registered"
    /\ last.hash \in DOMAIN blocks_to_parent
    /\ Siblings(last.hash) # {}

\* The id was returned by get_new_ref for a block that has not been
\* finalized or discarded since (nor registered again under a later id).
LiveId(id) ==
    \E i \in 1..Len(issued) :
      /\ issued[i].id = id
      /\ \A j \in (i + 1)..Len(issued) : issued[j].hash # issued[i].hash
      /\ life[issued[i].hash] \in {"Registered", "Pending"}

\* The hash get_new_ref returned the id for.
IssuedHash(id) == issued[CHOOSE i \in 1..Len(issued) : issued[i].id = id].hash

\* C13: add_snapshot(s) with a live id puts s into snapshots under the hash
\* the id was issued for and changes nothing else; with any other id it
\* panics and the four maps stay as they were.
C13_AddSnapshotUnderRecordedHash ==
    [][last'.op = "add_snapshot" =>
         IF LiveId(get_id(last'.snapshot))
         THEN /\ outcome' = "ok"
              /\ snapshots' = MapInsert(snapshots, IssuedHash(get_id(last'.snapshot)),
                                        last'.snapshot)
              /\ chain_forks' = chain_forks
              /\ blocks_to_parent' = blocks_to_parent
              /\ snapshot_id_to_block_hash' = snapshot_id_to_block_hash
         ELSE outcome' = "panic" /\ MapsUnchanged]_vars

\* C13 witness: add_snapshot has panicked on an id whose block was
\* finalized or discarded, while another block has its snapshot attached.
C13_Witness ==
    /\ outcome = "panic"
    /\ last.op = "add_snapshot"
    /\ \E i \in 1..Len(issued) :
         /\ issued[i].id = get_id(last.snapshot)
         /\ life[issued[i].hash] \in {"Finalized", "Discarded"}
    /\ DOMAIN snapshots # {}

\* C14: a Pending hash stays Pending or becomes Finalized or Discarded, and
\* only a finalize_snapshot call takes it out of Pending; a Finalized or
\* Discarded hash never becomes Registered or Pending again.
C14_LifeCycle ==
    [][\A h \in Hashes :
         /\ life[h] = "Pending" => life'[h] \in {"Pending", "Finalized", "Discarded"}
         /\ (life[h] = "Pending" /\ life'[h] # "Pending") => FinalizeStep
         /\ life[h] \in {"Finalized", "Discarded"}
              => life'[h] \notin {"Registered", "Pending"}]_vars

\* C15: when a finalize_snapshot(h) commits the writes of h, no ancestor of
\* h has a pending (uncommitted) snapshot.
C15_OldestFirst ==
    [][(FinalizeStep /\ store'.version = store.version + 1)
         => \A a \in AncestorsOrSelf(last'.hash) \ {last'.hash} :
              a \notin DOMAIN snapshots]_vars

\* C16: is_empty returns true exactly when no hash is Registered or
\* Pending: for a new manager, and again once every registered block has
\* been finalized or discarded.
C16_IsEmptyIffNoPending ==
    last.op = "is_empty" =>
      (last.ret <=> \A h \in Hashes : life[h] \notin {"Registered", "Pending"})

\* C16 witness: is_empty has returned true after two finalizations, the
\* second one of a child of the first, and a discarded block.
C16_Witness ==
    /\ last.op = "is_empty"
    /\ last.ret
    /\ store.version = 2
    /\ \E h \in Hashes : life[h] = "Discarded"

\* C17: between calls the store holds whole commits only: every
\* write_node_batch has its set_values and its version increment.
C17_NoPartialCommit ==
    /\ Len(store.log) = 3 * store.version
    /\ \A i \in 1..Len(store.log) :
         store.log[i].call =
           (CASE i % 3 = 1 -> "write_node_batch"
              [] i % 3 = 2 -> "set_values"
              [] OTHER -> "inc_next_version")

\* C18: a finalize_snapshot whose commit meets a failing store write (the
\* hash had its snapshot and the version did not advance) does not panic,
\* and it has made at most the one write that failed after the last one
\* that succeeded.
C18_StoreErrorPropagated ==
    [][(FinalizeStep /\ last'.hash \in DOMAIN snapshots
          /\ store'.version = store.version)
         => (outcome' # "panic" /\ Len(store'.log) <= Len(store.log) + 1)]_vars

\* C19: the snapshot stored for a hash is the same after every step that
\* leaves the hash in snapshots.
C19_SnapshotImmutable ==
    [][\A h \in DOMAIN snapshots :
         h \in DOMAIN snapshots' => snapshots'[h] = snapshots[h]]_vars

\* C20: on a witness that took part in no merge, the i-th get_hint, reading
\* with the type the i-th add_hint recorded, returns the value of the i-th
\* add_hint; a get_hint made when as many hints have been returned as were
\* recorded panics.
C20_ReplayInOrder ==
    [][(last'.op = "get_hint" /\ ~merged[last'.w]) =>
         LET i == Len(replayed[last'.w]) + 1 IN
         IF i <= Len(recorded[last'.w])
         THEN last'.ty = recorded[last'.w][i].ty
                => (outcome' = "ok" /\ last'.ret = Some(recorded[last'.w][i].value))
         ELSE outcome' = "panic"]_vars

\* C20 witness: three hints of two types recorded on one witness, three
\* get_hint calls have returned them in order, and the fourth has panicked.
C20_Witness ==
    /\ outcome = "panic"
    /\ last.op = "get_hint"
    /\ ~merged[last.w]
    /\ Len(recorded[last.w]) = 3
    /\ replayed[last.w] = recorded[last.w]
    /\ \E i, j \in 1..3 : recorded[last.w][i].ty # recorded[last.w][j].ty
    /\ recorded[last.w][1].value # recorded[last.w][2].value

\* A step that is a call of get_hint on a witness that took part in no
\* merge, made when i - 1 hints have been returned and the i-th is recorded.
ReplayOfRecorded(i) ==
    /\ last'.op = "get_hint"
    /\ ~merged[last'.w]
    /\ i = Len(replayed[last'.w]) + 1
    /\ i <= Len(recorded[last'.w])

\* C21: a get_hint that reads the next hint with another type than the one
\* it was recorded with panics; it never returns a value.
C21_TypeMismatchFails ==
    [][\A i \in 1..MaxHints :
         (ReplayOfRecorded(i) /\ last'.ty # recorded[last'.w][i].ty)
           => outcome' = "panic"]_vars

\* The hints of a witness from its cursor on, still as bytes.
Unread(w) == SubSeq(hints[w], next_idx[w] + 1, Len(hints[w]))

\* A step that is a call self.merge(rhs) of two different witnesses which
\* returns.
MergeReturns ==
    /\ last'.op = "merge"
    /\ last'.self # last'.rhs
    /\ outcome' = "ok"

C28_GetNewRefFrame ==
    [][(last'.op = "get_new_ref" /\ outcome' = "ok") =>
         /\ last'.ret \notin DOMAIN snapshot_id_to_block_hash
         /\ snapshot_id_to_block_hash'
              = MapInsert(snapshot_id_to_block_hash, last'.ret, last'.hash)
         /\ last'.hash \notin DOMAIN blocks_to_parent
         /\ blocks_to_parent' = MapInsert(blocks_to_parent, last'.hash, last'.prev)
         /\ chain_forks'
              = MapInsert(chain_forks, last'.prev,
                          Append(IF last'.prev \in DOMAIN chain_forks
                                 THEN chain_forks[last'.prev] ELSE <<>>,
                                 last'.hash))
         /\ snapshots' = snapshots
         /\ last'.hash \notin DOMAIN snapshots']_vars

\* C28 witness: get_new_ref has returned for a block whose parent already
\* had a child, while that child has its snapshot attached.
C28_Witness ==
    /\ outcome = "ok"
    /\ last.op = "get_new_ref"
    /\ Len(chain_forks[last.prev]) = 2
    /\ chain_forks[last.prev][2] = last.hash
    /\ chain_forks[last.prev][1] \in DOMAIN snapshots
    /\ last.hash \notin DOMAIN snapshots

\* A step that is a finalize_snapshot of a block with a recorded parent
\* whose commit has completed, so that the discard loop runs.
DiscardRuns ==
    /\ FinalizeStep
    /\ last'.hash \in DOMAIN blocks_to_parent
    /\ store'.version = store.version + 1

\* The blocks of the sibling subtrees of h.
SiblingSubtrees(h) == Reachable(Siblings(h), MaxHash)

\* What C29 says of one step.
C29_Step ==
    DiscardRuns =>
      /\ outcome' = "ok"
      /\ SeqRange(last'.discarded) = SiblingSubtrees(last'.hash)
      /\ Len(last'.discarded) = Cardinality(SiblingSubtrees(last'.hash))
      /\ \A x \in SiblingSubtrees(last'.hash) :
           x \notin DOMAIN blocks_to_parent' /\ x \notin DOMAIN snapshots'

\* C29: the discard loop of finalize_snapshot ends normally having taken
\* every block of every sibling subtree exactly once, each with its parent
\* edge and its snapshot removed.
C29_DiscardVisitsOnce == [][C29_Step]_vars

\* C29 where no block is its own ancestor and every block of the sibling
\* subtrees has its snapshot attached.
C29_OnPendingForests ==
    [][(/\ DiscardRuns
        /\ Acyclic
        /\ \A x \in SiblingSubtrees(last'.hash) : x \in DOMAIN snapshots)
         => C29_Step]_vars

\* The get_hint calls on w that have got their index: those that have
\* ended, in a hint or in a panic, and those that wait for the lock.
Claimers(w) ==
    {[t |-> r.t, n |-> r.n, idx |-> r.idx] : r \in {x \in reads : x.w = w}}
    \cup {[t |-> t, n |-> threads[t].calls, idx |-> threads[t].idx] :
            t \in {u \in Threads : /\ threads[u].pc = "get_hint_lock"
                                   /\ threads[u].w = w}}

\* C24: under every interleaving of the threads, the get_hint calls on one
\* witness get pairwise different indices that fill 0 .. next_idx - 1 with
\* no gap, and on a witness no merge has touched each call that has
\* returned has returned the hint recorded at its index (read with the type
\* it was recorded with): every hint goes to one caller, none twice, none
\* skipped.
C24_DistinctIndices ==
    \A w \in Witnesses :
       /\ Cardinality(Claimers(w)) = next_idx[w]
       /\ {c.idx : c \in Claimers(w)} = 0..(next_idx[w] - 1)
       /\ ~merged[w] =>
            \A r \in reads :
               (r.w = w /\ r.ret.some /\ r.ty = recorded[w][r.idx + 1].ty)
                 => r.ret = Some(recorded[w][r.idx + 1].value)

\* C24 witness: two threads are in get_hint on witness a at once; the one
\* that got the later index has already returned its hint, the one that
\* got the earlier index still waits to read.
C24_Witness ==
    /\ ~merged["a"]
    /\ threads["t1"].pc = "get_hint_lock"
    /\ threads["t1"].w = "a"
    /\ threads["t1"].idx = 0
    /\ \E r \in reads : r.t = "t2" /\ r.w = "a" /\ r.idx = 1 /\ r.ret = Some(2)
    /\ next_idx["a"] = 2

\* C25: in the replay of a native run on a storage with no data, every call
\* made so far has returned what it returned in the native run (the same
\* response, the same error or the same panic), and when the replay has made
\* every call its working set holds the values and events the native run
\* ended with, so every read has returned the value the native run read.
C25_ReplayEquivalence ==
    phase = "zk" =>
      /\ \A i \in 1..Len(zk_results) : zk_results[i] = script[i].ret
      /\ Len(zk_results) = Len(script) =>
           /\ working_set = native_final
           /\ next_idx[RunWitness] = Len(hints[RunWitness])

\* C25 witness: a replay has made all three calls of a native run that read
\* two different values from its storage, one of them ending in an error.
C25_Witness ==
    /\ phase = "zk"
    /\ Len(script) = 3
    /\ Len(zk_results) = 3
    /\ Len(hints[RunWitness]) = 2
    /\ hints[RunWitness][1] # hints[RunWitness][2]
    /\ \E i \in 1..3 : zk_results[i].kind = "Err"
    /\ \E i \in 1..3 : zk_results[i].kind = "Ok"

\* The value a working set gives for a key: the cached one, else the one of
\* the database of the native run.
ValueOf(ws, key) ==
    IF key \in DOMAIN ws.cache THEN ws.cache[key]
    ELSE IF key \in DOMAIN db THEN Some(db[key]) ELSE None

\* The key of the admin the call checks its sender against.
AdminKey(c) == IF c.fn = "submit_order" THEN "order_admin" ELSE "counter_admin"

EndSlotReturns == last'.op = "end_slot" /\ outcome' = "ok"

\* C26: an end_slot made while forks are open (the fork manager is not
\* empty) puts the slot's checkpoint into a new pending snapshot and leaves
\* the persistent storage alone; made with no fork open it commits the
\* checkpoint to the storage.
C26_EndSlotCommitsBySnapshot ==
    [][EndSlotReturns =>
         IF is_empty(Mgr)
         THEN /\ current_storage'
                   = validate_and_commit(current_storage, checkpoint.value.log)
              /\ snapshots' = snapshots
         ELSE /\ DOMAIN snapshots' # DOMAIN snapshots
              /\ current_storage' = current_storage]_vars

\* What end_slot does instead: forks open or not, it commits the checkpoint
\* to the storage and no snapshot is made.
C26_EndSlotAlwaysDirect ==
    [][EndSlotReturns =>
         /\ current_storage'
              = validate_and_commit(current_storage, checkpoint.value.log)
         /\ snapshots' = snapshots]_vars

\* The startup flags of a loaded plugin.
StartupStatus == inner.value.startup_status
BothFlags == STARTUP_END_OF_RECEIVED + STARTUP_PROCESSED_RECEIVED

\* A step of a notification that puts its message on the channel.
Forwards ==
    /\ "message" \in DOMAIN last'
    /\ geyser_channel'.queue = Append(geyser_channel.queue, last'.message)

\* C30: a message is put on the channel only by a notification made with
\* both startup flags set, and each such notification forwards its message;
\* the PROCESSED flag gets set only when END_OF_STARTUP is set, by an
\* update_slot_status with the status Processed, and that update is
\* forwarded; no flag of the loaded plugin is ever cleared.
C30_ForwardOnlyAfterStartup ==
    [][(inner.some /\ inner'.some) =>
         /\ Len(geyser_channel'.queue) > Len(geyser_channel.queue)
              => (Forwards /\ inner'.value.startup_status = BothFlags)
         /\ ("message" \in DOMAIN last' /\ notifications' # notifications
               /\ inner'.value.startup_status = BothFlags) => Forwards
         /\ (/\ ~FlagSet(StartupStatus, STARTUP_PROCESSED_RECEIVED)
             /\ FlagSet(inner'.value.startup_status, STARTUP_PROCESSED_RECEIVED))
              => /\ FlagSet(StartupStatus, STARTUP_END_OF_RECEIVED)
                 /\ last'.op = "update_slot_status"
                 /\ last'.message.status = "Processed"
                 /\ Forwards
         /\ \A flag \in {STARTUP_END_OF_RECEIVED, STARTUP_PROCESSED_RECEIVED} :
              FlagSet(StartupStatus, flag) => FlagSet(inner'.value.startup_status, flag)]_vars

\* C30 witness: the Processed update that has set the second flag is on the
\* channel, the notification made before it with the first flag set at most
\* is not.
C30_Witness ==
    /\ inner.some
    /\ StartupStatus = BothFlags
    /\ notifications = 2
    /\ last.op = "update_slot_status"
    /\ geyser_channel.queue = <<SlotMessage(1, "Processed")>>
    /\ worker = Some(WorkerNew)

\* A step that is a call of get_new_ref which panics on its assert.
GetNewRefFails == last'.op = "get_new_ref" /\ outcome' = "panic"

\* C31: a get_new_ref that fails because the hash is registered leaves
\* latest_snapshot_id, snapshot_id_to_block_hash, blocks_to_parent (the
\* parent recorded for the hash included) and chain_forks as they were.
C31_FailedGetNewRefChangesNothing ==
    [][GetNewRefFails =>
         /\ latest_snapshot_id' = latest_snapshot_id
         /\ snapshot_id_to_block_hash' = snapshot_id_to_block_hash
         /\ blocks_to_parent' = blocks_to_parent
         /\ chain_forks' = chain_forks]_vars

\* What a failed get_new_ref does leave alone: the child lists, the
\* snapshots and the store.  The counter has moved, the id map has the new
\* id, and the hash has the parent of the second header.
C31_FailedGetNewRefKeepsForks ==
    [][GetNewRefFails =>
         /\ chain_forks' = chain_forks
         /\ snapshots' = snapshots
         /\ store' = store
         /\ latest_snapshot_id' = latest_snapshot_id + 1
         /\ snapshot_id_to_block_hash' =
              MapInsert(snapshot_id_to_block_hash, latest_snapshot_id + 1, last'.hash)
         /\ blocks_to_parent' = MapInsert(blocks_to_parent, last'.hash, last'.prev)]_vars

\* A step that is a finalize_snapshot of a block that has its snapshot and
\* whose commit has completed: both store writes succeeded and the version
\* has advanced.
FinalizeCommits ==
    /\ FinalizeStep
    /\ last'.hash \in DOMAIN snapshots
    /\ store'.version = store.version + 1

\* C32: a finalize_snapshot(h) of a block with a snapshot attached whose
\* commit has gone through does not abort, whether or not the siblings of h
\* and their descendants have snapshots: it never ends in a panic with the
\* writes of h committed and the version advanced.
C32_FinalizeNeverAbortsAfterCommit ==
    [][FinalizeCommits => outcome' = "ok"]_vars

\* C32 where no block is its own ancestor and every block of the sibling
\* subtrees of h has its snapshot attached.
C32_OnPendingForests ==
    [][(/\ FinalizeCommits
        /\ Acyclic
        /\ \A x \in SiblingSubtrees(last'.hash) : x \in DOMAIN snapshots)
         => outcome' = "ok"]_vars

\* C33: after any sequence of get_new_ref calls the manager has accepted,
\* no block is its own ancestor along blocks_to_parent (a header whose
\* prev_hash is its own hash included), and the parent walk of every query
\* ends.
C33_NoCycleAccepted ==
    /\ outcome = "ok" => Acyclic
    /\ IsQuery => last.ret # Diverges

\* Where no block is its own ancestor the walk of every query ends.
C33_QueriesEndOnForests == (IsQuery /\ Acyclic) => last.ret # Diverges

\* A query whose walk goes round a cycle of blocks_to_parent for ever:
\* reachable, so the cycles get_new_ref accepts are not harmless.
C33_QueryDiverges == IsQuery /\ last.ret = Diverges

\* The last query was made with the id of a registered block that has no
\* snapshot attached.
QueryOfSnapshotless ==
    /\ IsQuery
    /\ last.id \in DOMAIN snapshot_id_to_block_hash
    /\ QueriedBlock \notin DOMAIN snapshots

\* The ancestor at depth d is the nearest ancestor of h whose snapshot holds
\* the key (the ancestors between may have a snapshot or none).
NearestAncestorHolds(h, key, accessory, d) ==
    /\ Ancestor(h, d).some
    /\ Holds(Ancestor(h, d).value, key, accessory)
    /\ \A i \in 1..(d - 1) : ~Holds(Ancestor(h, i).value, key, accessory)

\* C34: a query made with the id get_new_ref returned for a block that has
\* no snapshot yet returns the value of the nearest ancestor whose snapshot
\* holds the key, also when an ancestor between has no snapshot.
C34_PendingBlockReadsAncestors ==
    QueryOfSnapshotless =>
      \A d \in Depths \ {0} :
        NearestAncestorHolds(QueriedBlock, last.key, QueryIsAccessory, d)
          => last.ret = Some(CacheOf(snapshots[Ancestor(QueriedBlock, d).value],
                                     QueryIsAccessory)[last.key])

\* What the code does: the iterator ends at the first block with no
\* snapshot, so a query with the id of such a block returns None.
C34_SnapshotlessBlockReadsNothing == QueryOfSnapshotless => last.ret = None

\* A step that is a get_hint on a witness whose hints are all read: the
\* index it takes is past the end and the indexing panics.
GetHintExhausted ==
    /\ last'.op = "get_hint"
    /\ next_idx[last'.w] >= Len(hints[last'.w])

\* C35: a get_hint that fails because the hints are exhausted leaves the
\* witness as it was, the cursor included (so that a hint added afterwards
\* is the one the next get_hint returns).
C35_FailedGetHintKeepsCursor ==
    [][GetHintExhausted =>
         /\ outcome' = "panic"
         /\ hints' = hints
         /\ next_idx' = next_idx]_vars

\* What the code does: the failed get_hint has moved the cursor by one, past
\* the place where the next add_hint puts its hint.
C35_FailedGetHintMovesCursor ==
    [][GetHintExhausted =>
         /\ outcome' = "panic"
         /\ hints' = hints
         /\ next_idx' = [next_idx EXCEPT ![last'.w] = @ + 1]
         /\ next_idx'[last'.w] > Len(hints'[last'.w])]_vars

\* Thread t is inside a call of merge.
InMerge(t) == threads[t].pc \in {"merge_lock_self", "merge_lock_rhs", "deadlocked"}

\* The call thread t was in has ended, by returning or by a panic.
CallEnded(t) == threads[t].pc \in {"idle", "panicked"}

\* C36: merge is deadlock-free: every call of merge ends, a.merge(b) made
\* while another thread makes b.merge(a) and a.merge(a) included.
C36_MergeTerminates == \A t \in Threads : InMerge(t) ~> CallEnded(t)

\* Two threads each hold the lock of the witness their merge took first and
\* wait for the lock the other holds: neither ever goes on.
C36_CircularWait ==
    \E t, u \in Threads :
       /\ t # u
       /\ threads[t].pc = "merge_lock_rhs" /\ lock[threads[t].w] = t
       /\ threads[u].pc = "merge_lock_rhs" /\ lock[threads[u].w] = u
       /\ threads[t].rhs = threads[u].w
       /\ threads[u].rhs = threads[t].w

\* A step in which thread t, inside self.merge(rhs) of two different
\* witnesses, has got the lock of rhs and drains it from the cursor value
\* it loaded at the start of the call (threads[t].idx).
Drains(t) ==
    /\ threads[t].pc = "merge_lock_rhs"
    /\ threads'[t].pc # "merge_lock_rhs"
    /\ threads[t].w # threads[t].rhs
    /\ lock[threads[t].rhs] = "free"

\* The hints of rhs the drain of t moves to self are those at the loaded
\* cursor value and after it.  None of them has been returned by a get_hint
\* on rhs, and none is the hint a get_hint on rhs has taken the index of and
\* has still to read.
MovedOnlyUnread(t) ==
    /\ \A r \in reads :
         (r.w = threads[t].rhs /\ r.ret.some) => r.idx < threads[t].idx
    /\ \A u \in Threads :
         (/\ threads[u].pc = "get_hint_lock"
          /\ threads[u].w = threads[t].rhs
          /\ threads[u].idx < Len(hints[threads[t].rhs]))
           => threads[u].idx < threads[t].idx

\* C37: when self.merge(rhs) runs next to get_hint calls on rhs, the merge
\* does not abort, and every hint of rhs is either returned by a get_hint on
\* rhs or moved to self: none is both returned and moved, and none is moved
\* away from a get_hint that has taken its index (which would then abort).
C37_EachHintInOnePlace ==
    [][\A t \in Threads :
         Drains(t) => (threads'[t].pc = "idle" /\ MovedOnlyUnread(t))]_vars

\* The same for the merges during which the cursor of rhs has not moved
\* between the load and the drain (no get_hint on rhs came between).
C37_WhenCursorUnmoved ==
    [][\A t \in Threads :
         (Drains(t) /\ next_idx[threads[t].rhs] = threads[t].idx
            /\ threads[t].idx <= Len(hints[threads[t].rhs]))
           => (threads'[t].pc = "idle" /\ MovedOnlyUnread(t))]_vars

\* A step that is a call of apply_sync_data_blob inside a slot: begin_slot
\* has put a checkpoint in place and nothing has taken it.
BlobInSlot == last'.op = "apply_sync_data_blob" /\ checkpoint.some

\* C38: inside a slot the checkpoint stays in place until end_slot: an
\* apply_sync_data_blob, whatever its outcome, returns with the checkpoint
\* still there (so that another blob and the closing end_slot succeed),
\* holding the write of the call it dispatched for end_slot to commit.
C38_CheckpointKeptUntilEndSlot ==
    [][BlobInSlot =>
         /\ outcome' = "ok"
         /\ checkpoint'.some
         /\ last'.ret = "Rewarded(0)"
              => last'.blob.writes \in SeqRange(checkpoint'.value.log)]_vars

\* What the code does: apply_sync_data_blob returns with the checkpoint
\* taken, whatever the outcome of the blob, and the next
\* apply_sync_data_blob or end_slot of the slot panics.
C38_BlobConsumesCheckpoint ==
    [][/\ BlobInSlot => (outcome' = "ok" /\ checkpoint' = None)
       /\ (last.op = "apply_sync_data_blob"
             /\ last'.op \in {"apply_sync_data_blob", "end_slot"})
            => outcome' = "panic"]_vars

\* The message the worker's next recv returns is the status Confirmed of a
\* slot, and the step is that recv.
ConfirmedRecv(slot) ==
    /\ worker.some
    /\ worker'.some
    /\ geyser_channel.queue # <<>>
    /\ geyser_channel'.queue = Tail(geyser_channel.queue)
    /\ Head(geyser_channel.queue) = SlotMessage(slot, "Confirmed")

\* The accumulators handle_confirmed_slot works on.
ConfirmedAccumulators(wk) ==
    <<wk.block_accumulator, wk.processed_slot_account_accumulator,
      wk.processed_transaction_accumulator>>

\* The slot has an entry in none of the three accumulators.
SlotRemoved(wk, slot) ==
    /\ slot \notin DOMAIN wk.block_accumulator
    /\ slot \notin DOMAIN wk.processed_slot_account_accumulator
    /\ slot \notin DOMAIN wk.processed_transaction_accumulator

\* The slot has an entry in each of the three accumulators.
SlotComplete(wk, slot) ==
    /\ slot \in DOMAIN wk.block_accumulator
    /\ slot \in DOMAIN wk.processed_slot_account_accumulator
    /\ slot \in DOMAIN wk.processed_transaction_accumulator

\* The handling of Confirmed removes the slot from all three accumulators
\* when it is in all three, and else removes nothing.
AllOrNothing(slot) ==
    IF SlotComplete(worker.value, slot)
    THEN SlotRemoved(worker'.value, slot)
    ELSE ConfirmedAccumulators(worker'.value) = ConfirmedAccumulators(worker.value)

\* C39: the handling of a Confirmed slot is all-or-nothing, and a slot that
\* got Processed (its account hashes are in the processed accumulator) and
\* whose block is known is out of the three accumulators once its Confirmed
\* is handled, a slot with no transactions included.
C39_ConfirmedSlotRemoved ==
    [][\A slot \in GeyserSlots :
         ConfirmedRecv(slot) =>
           /\ AllOrNothing(slot)
           /\ (/\ slot \in DOMAIN worker.value.block_accumulator
               /\ slot \in DOMAIN worker.value.processed_slot_account_accumulator)
                => SlotRemoved(worker'.value, slot)]_vars

\* The first half of C39 alone: all-or-nothing.
C39_ConfirmedAllOrNothing ==
    [][\A slot \in GeyserSlots : ConfirmedRecv(slot) => AllOrNothing(slot)]_vars

\* The second half for the slots that had a transaction: they are removed.
C39_RemovedWhenComplete ==
    [][\A slot \in GeyserSlots :
         (ConfirmedRecv(slot) /\ SlotComplete(worker.value, slot))
           => SlotRemoved(worker'.value, slot)]_vars

\* on_unload has dropped the sender of the channel the worker reads.
Disconnected == worker.some /\ ~geyser_channel.sender

\* The loop of process_messages has ended: the worker makes no further
\* recv, neither one that returns a message nor one that returns Err.
WorkerEnded == worker.some /\ ~ENABLED (WorkerRecv \/ WorkerRecvErr)

\* C40: once on_unload has dropped the sender, the worker handles the
\* messages still in the queue and then ends its receive loop.
C40_WorkerTerminates == Disconnected ~> WorkerEnded

\* The first half of C40: once the sender is dropped the worker receives
\* every message still in the queue.
C40_QueueDrained == Disconnected ~> (geyser_channel.queue = <<>>)

\* What the loop does after that: recv has returned Err and the worker asks
\* again, for ever.
C40_SpinsOnErr ==
    (Disconnected /\ geyser_channel.queue = <<>>) => ENABLED WorkerRecvErr

\* ------------------------------------------------------------ supporting
\* The debug_assert_eq of remove_snapshot compares the hash recorded for a
\* snapshot's id with the hash the snapshot is stored under: they agree in
\* every state, and two stored snapshots never share an id, so the assert
\* holds at every removal and a release build behaves like a debug build.
DebugAssertHolds ==
    /\ \A h \in DOMAIN snapshots :
         /\ get_id(snapshots[h]) \in DOMAIN snapshot_id_to_block_hash
         /\ snapshot_id_to_block_hash[get_id(snapshots[h])] = h

====
